---- MODULE Spec2Model ----
(***************************************************************************)
(* Model of the zhifei decision pipeline (project classifier, region       *)
(* resolver, KG context, PreCheck gate, /compose orchestrator), of its     *)
(* audit/replay validator and of the KG pack manager (scripts/kg_pack.py). *)
(*                                                                         *)
(* The module holds several specifications over one set of variables:      *)
(*   SpecProfile  - project_profile_service.generate_project_profile       *)
(*   SpecPack     - kg_pack.py: validate / activate / rollback             *)
(*   SpecValidate - kg_pack.py: cmd_validate on one pack directory         *)
(*   SpecRW       - _write_cfg racing with kg_loader.load_kg_config        *)
(*   SpecStore    - kg_pack.py: pack / validate / activate / rollback /    *)
(*                  eval, with the pack directories they write             *)
(*   SpecCompose  - app/main.py compose() step by step, plus /audit and    *)
(*                  /debug/kg_pack                                         *)
(*   SpecRegion   - region_upgrade_service.resolve_region_upgrade          *)
(*   SpecGuard    - precheck_guard_service.run_precheck_guard              *)
(*   SpecSelect   - kg_context_service._select_base_packs                  *)
(*   SpecDomain   - kg_context_service._resolve_domain                     *)
(* A specification leaves the variables of the others unchanged.           *)
(***************************************************************************)
EXTENDS Integers, Sequences, FiniteSets, TLC

VARIABLES
    cl_payload,   \* classifier input: the request payload
    cl_rules,     \* classifier input: content of the project_profile rule file
    cl_profile,   \* classifier output: << >> before the call, then <<ProjectProfile>>
    pm_cfg,       \* pack manager: text of kg_config.json (being) written
    pm_fs,        \* pack manager: the root directory and the kg_packs/<id> directories
    pm_bak,       \* pack manager: the kg_config.json.bak.<timestamp> files
    pm_now,       \* pack manager: the wall clock, in seconds
    pm_log,       \* pack manager: the operations run so far, newest last
    rw_len,       \* config write: how many chunks of pm_cfg are in the file
    rw_pc,        \* config write: where the writing command stands
    rw_job,       \* config write: the command under way
    rw_seen,      \* config read: what load_kg_config last got
    co_req,       \* /compose: the request payload
    co_pc,        \* /compose: where the handler stands
    co_loc,       \* /compose: the handler's locals
    co_build,     \* the files under build/
    co_written,   \* /compose: the build files this request has written
    co_steps,     \* /compose: the steps this request has run, in order
    co_resp,      \* /compose: the status of the response
    co_active,    \* kg_config.json: active_pack, as the pipeline resolves it
    co_fs,        \* the rule and knowledge files present in each pack
    co_audit,     \* /audit: the last report
    co_n,         \* number of requests received
    co_switches,  \* number of pack switches so far
    fn_in,        \* a service function (or /debug/kg_pack) called on its own: its arguments
    fn_out        \* a service function called on its own: << >>, then <<result>>

clVars == <<cl_payload, cl_rules, cl_profile>>

pmVars == <<pm_cfg, pm_fs, pm_bak, pm_now, pm_log>>

rwVars == <<rw_len, rw_pc, rw_job, rw_seen>>

coVars == <<co_req, co_pc, co_loc, co_build, co_written, co_steps, co_resp, co_active,
            co_fs, co_audit, co_n, co_switches>>

fnVars == <<fn_in, fn_out>>

vars == <<clVars, pmVars, rwVars, coVars, fnVars>>

\* What the actions of one component leave unchanged.
notCl == <<pmVars, rwVars, coVars, fnVars>>

notPm == <<clVars, rwVars, coVars, fnVars>>

notRw == <<clVars, coVars, fnVars>>

notCo == <<clVars, pmVars, rwVars, fnVars>>

notFn == <<clVars, pmVars, rwVars, coVars>>

Null == "null"

\* An optional value is a sequence of length at most one.
None == << >>

Some(x) == << x >>

\* A numeric rule-file field that is not set is written -1.
IsSet(x) == x >= 0

(***************************************************************************)
(* Small helpers.                                                          *)
(***************************************************************************)
Min(a, b) == IF a <= b THEN a ELSE b

Max(a, b) == IF a >= b THEN a ELSE b

(***************************************************************************)
(* project_profile_service.py                                              *)
(*                                                                         *)
(* Confidences are kept in thousandths (0.85 is 850), with exact decimal   *)
(* arithmetic in place of binary floating point.                           *)
(***************************************************************************)

\* The keyword table of _infer_project_type, in declaration order.  Keywords
\* are written in pinyin; the Chinese keyword stands in the comment column.
KeywordTable ==
    << [ptype |-> "muqiang_gongcheng",                       \* 幕墙工程
        kws |-> {"muqiang", "boli_muqiang", "shicai_muqiang",
                 "lvban_muqiang", "danyuanshi_muqiang"}],
       [ptype |-> "zhuangshi_zhuangxiu",                     \* 装饰装修
        kws |-> {"zhuangxiu", "zhuangshi", "jingzhuang", "shinei_zhuangshi",
                 "diaoding", "qiangmian", "dimian", "tuliao", "shicai",
                 "mushimian"}],
       [ptype |-> "shizheng_paishui",                        \* 市政排水
        kws |-> {"paishui", "yushui", "wushui", "yuwu", "guanwang", "guandao",
                 "dingguan", "jianchajing", "bengzhan", "wushui_chuli"}],
       [ptype |-> "shizheng_daolu",                          \* 市政道路
        kws |-> {"shizheng_daolu", "daolu", "lumian", "liqing", "shuiwen",
                 "luji", "renxingdao", "jiaotong_daogai", "biaoxian",
                 "biaozhi"}],
       [ptype |-> "fangjian",                                \* 房建
        kws |-> {"fangjian", "zhuzhai", "lou", "zhuti_jiegou", "gangjin",
                 "hunningtu", "jichu", "zhuangji", "jiegou_shigong"}],
       [ptype |-> "jidian_anzhuang",                         \* 机电安装
        kws |-> {"jidian", "nuantong", "kongtiao", "dianqi", "xiaofang",
                 "jipaishui", "ruodian", "qiaojia", "fengguan", "guanxian"}],
       [ptype |-> "yuanlin_jingguan",                        \* 园林景观
        kws |-> {"yuanlin", "lvhua", "jingguan", "puzhuang", "guangchang",
                 "qiaomu", "guanmu", "caoping", "yuanjian"}] >>

\* The keywords that occur inside a longer word of the table: `kw in text`
\* is a substring test, so a text holding the longer word holds these too.
SubstringsOf(word) ==
    CASE word = "boli_muqiang"       -> {"muqiang"}
      [] word = "shicai_muqiang"     -> {"muqiang", "shicai"}
      [] word = "lvban_muqiang"      -> {"muqiang"}
      [] word = "danyuanshi_muqiang" -> {"muqiang"}
      [] word = "shinei_zhuangshi"   -> {"zhuangshi"}
      [] word = "wushui_chuli"       -> {"wushui"}
      [] word = "shizheng_daolu"     -> {"daolu"}
      [] word = "jipaishui"          -> {"paishui"}
      [] OTHER                       -> {}

\* `kw in text` for a text given as the set of words it is made of.
TextContains(text, kw) == \E w \in text : kw = w \/ kw \in SubstringsOf(w)

\* _extract_text: the stripped string fields of the payload joined together;
\* empty when the payload carries no non-blank text field.
ExtractText(payload) == payload.text

\* round(conf, 2) on thousandths, ties to even.
Round2(x) ==
    LET q == x \div 10
        r == x % 10
    IN  IF r < 5 THEN q * 10
        ELSE IF r > 5 THEN (q + 1) * 10
        ELSE IF q % 2 = 0 THEN q * 10 ELSE (q + 1) * 10

DefaultBaseConfidence == 750

KeywordBaseCap == 800

KeywordConfidenceCap == 850

HitStep == 30

DefaultAutoAccept == 850

DefaultRequireManual == 700

\* The (ptype, hit count) pairs of the table rows with at least one hit, in
\* table order.
RECURSIVE HitsFrom(_, _)
HitsFrom(text, i) ==
    IF i > Len(KeywordTable) THEN << >>
    ELSE LET row == KeywordTable[i]
             n == Cardinality({kw \in row.kws : TextContains(text, kw)})
         IN  IF n > 0 THEN << [ptype |-> row.ptype, n |-> n] >> \o HitsFrom(text, i + 1)
             ELSE HitsFrom(text, i + 1)

\* hits.sort(key=count, reverse=True); hits[0]: the sort is stable, so the
\* first row among those with the largest count.
RECURSIVE BestHit(_, _)
BestHit(hits, i) ==
    IF i = Len(hits) THEN hits[i]
    ELSE LET rest == BestHit(hits, i + 1)
         IN  IF hits[i].n >= rest.n THEN hits[i] ELSE rest

\* conf = round(min(0.85, base_conf + 0.03 * max(0, n - 1)), 2)
KeywordConfidence(base, n) ==
    Round2(Min(KeywordConfidenceCap, Min(base, KeywordBaseCap) + HitStep * Max(0, n - 1)))

\* _infer_project_type
InferProjectType(payload, rules) ==
    IF payload.project_type # Null
    THEN [value |-> payload.project_type, confidence |-> 1000, source |-> "explicit"]
    ELSE IF ExtractText(payload) = {}
    THEN [value |-> Null, confidence |-> 0, source |-> "none"]
    ELSE LET base == IF IsSet(rules.base_confidence) THEN rules.base_confidence
                     ELSE DefaultBaseConfidence
             hits == HitsFrom(ExtractText(payload), 1)
         IN  IF hits = << >>
             THEN [value |-> Null, confidence |-> 0, source |-> "keyword:none"]
             ELSE LET best == BestHit(hits, 1)
                  IN  [value |-> best.ptype,
                       confidence |-> KeywordConfidence(base, best.n),
                       source |-> "keyword"]

\* The thresholds of generate_project_profile, with their defaults.
AutoAcceptOf(rules) ==
    IF IsSet(rules.auto_accept) THEN rules.auto_accept ELSE DefaultAutoAccept

RequireManualOf(rules) ==
    IF IsSet(rules.require_manual) THEN rules.require_manual ELSE DefaultRequireManual

Decide(conf, rules) ==
    IF conf >= AutoAcceptOf(rules) THEN "auto_accept"
    ELSE IF conf >= RequireManualOf(rules) THEN "require_manual_confirm"
    ELSE "block_and_review"

\* generate_project_profile (the fields the decision stages read).
GenerateProjectProfile(payload, rules) ==
    LET info == InferProjectType(payload, rules)
    IN  [project_type |-> info,
         auto_accept |-> AutoAcceptOf(rules),
         decision |-> Decide(info.confidence, rules)]

(***************************************************************************)
(* scripts/kg_pack.py: the pack manager.                                   *)
(*                                                                         *)
(* A directory is named by the pack id it belongs to ("p1" is              *)
(* kg_packs/p1) or is the root directory ".".  The SHA-256 of a file is    *)
(* modelled by the file's content number (no collisions); content 0 is a   *)
(* file that does not exist, and sha 0 in a manifest entry is a missing    *)
(* sha256 field.                                                           *)
(***************************************************************************)
PackIds == {"default", "p1", "p2"}

RootDir == "."

Dirs == PackIds \cup {RootDir}

\* The relative paths kg_config.json names (rule files, knowledge packs).
CfgPaths == {"rules.json", "guard.json"}

HistCap == 20

\* _load_cfg: the configuration as the pack manager reads it; a missing
\* active_pack reads as "default".
LoadCfg(file) ==
    [file EXCEPT !.active = IF file.active = Null THEN "default" ELSE file.active]

\* _pack_base_dir / cmd_validate: the directory of pack pid; an unregistered
\* pack is looked for under kg_packs/<pid>.
BaseDirOf(cfg, pid) ==
    IF cfg.packs[pid] = "root" THEN RootDir ELSE pid

\* _collect_existing_relpaths: the configured paths that exist under dir.
CollectExistingRelpaths(fs, dir) ==
    {rel \in CfgPaths : fs[dir].files[rel] # 0}

\* _validate_pack_by_manifest, the loop over files[]: the problems found from
\* entry i on.
RECURSIVE ManifestProblems(_, _, _)
ManifestProblems(d, files, i) ==
    IF i > Len(files) THEN << >>
    ELSE LET it == files[i]
             rest == ManifestProblems(d, files, i + 1)
         IN  IF ~it.is_obj THEN << "item is not object" >> \o rest
             ELSE IF it.path = "" \/ it.sha = 0 THEN << "missing path/sha256" >> \o rest
             ELSE IF d.files[it.path] = 0 THEN << "missing file" >> \o rest
             ELSE IF d.files[it.path] # it.sha THEN << "sha256 mismatch" >> \o rest
             ELSE rest

\* Mutant of ValidatePackByManifest: an empty files list is accepted.
ValidateListedFilesOnly(d) ==
    IF d.manifest.kind = "absent" THEN << "manifest.json missing" >>
    ELSE IF d.manifest.kind = "invalid" THEN << "manifest.json invalid JSON" >>
    ELSE IF ~d.manifest.files_is_list THEN << "files missing or empty" >>
    ELSE ManifestProblems(d, d.manifest.files, 1)

\* _validate_pack_by_manifest: the list of problems; the pack is valid when
\* the list is empty.
ValidatePackByManifest(d) ==
    IF d.manifest.kind = "absent" THEN << "manifest.json missing" >>
    ELSE IF d.manifest.kind = "invalid" THEN << "manifest.json invalid JSON" >>
    ELSE IF ~d.manifest.files_is_list \/ d.manifest.files = << >>
    THEN << "files missing or empty" >>
    ELSE ManifestProblems(d, d.manifest.files, 1)

\* cmd_validate on the configuration on disk: "ok" (exit code 0), "fail"
\* (exit code 2) or "error" (SystemExit for a directory that is not found, or
\* the AttributeError of man.get when the manifest is JSON but not an object).
CmdValidate(file, fs, pid) ==
    LET cfg == LoadCfg(file)
        base == BaseDirOf(cfg, pid)
        rels == CollectExistingRelpaths(fs, base)
        missing_cfg_assets == {rel \in rels : fs[base].files[rel] = 0}
    IN  IF ~fs[base].exists THEN "error"
        ELSE IF missing_cfg_assets # {} THEN "fail"
        ELSE IF fs[base].manifest.kind = "absent" THEN "ok"
        ELSE IF fs[base].manifest.kind = "scalar" THEN "error"
        ELSE IF ValidatePackByManifest(fs[base]) # << >> THEN "fail"
        ELSE "ok"

\* Mutant of LastN: the ledger is never cut.
KeepAll(seq, n) == seq

\* hist[-n:]
LastN(seq, n) ==
    IF Len(seq) <= n THEN seq ELSE SubSeq(seq, Len(seq) - n + 1, Len(seq))

\* cmd_activate, lines 349-362: a pack that is not in the packs table is
\* registered (in memory) when its directory exists.
AutoRegister(cfg, pack_id) ==
    IF cfg.packs[pack_id] # Null THEN cfg
    ELSE [cfg EXCEPT !.packs[pack_id] = "kgdir"]

\* Mutant of SwitchTo: the previous-pack marker is not recorded.
SwitchToWithoutPrev(cfg, pack_id, now) ==
    [cfg EXCEPT !.hist = LastN(Append(cfg.hist, [from |-> cfg.active, to |-> pack_id, at |-> now]),
                               HistCap),
                !.active = pack_id]

\* cmd_activate, lines 369-376: the switch itself.
SwitchTo(cfg, pack_id, now) ==
    [cfg EXCEPT !.prev = cfg.active,
                !.hist = LastN(Append(cfg.hist, [from |-> cfg.active, to |-> pack_id, at |-> now]),
                               HistCap),
                !.active = pack_id]

\* json.dumps(cfg, indent=2): the text _write_cfg puts on disk.
Dumped(cfg) == [cfg EXCEPT !.fmt = "dumped"]

\* _write_cfg with backup=True: the old text goes to the backup file named by
\* the current second, the new text to kg_config.json.
WriteCfg(file, bak, now, cfg) ==
    [file |-> Dumped(cfg), bak |-> [bak EXCEPT ![now] = Some(file)]]

\* Mutant of RestoreFromBackup: the configuration is left as written.
RestoreSkipped(file, bak, now) == file

\* cmd_activate, lines 385-390: after a failed smoke run the configuration is
\* rewritten from the backup file, when that file exists.
RestoreFromBackup(file, bak, now) ==
    IF bak[now] # None THEN bak[now][1] ELSE file

\* Mutant of ValidationBlocks: only a SystemExit of the validation blocks.
ValidationBlocksOnErrorOnly(vcode) == vcode = "error"

\* cmd_activate lines 364-367: the switch is blocked unless validation
\* returned 0.
ValidationBlocks(vcode) == vcode # "ok"

\* cmd_activate: the result code and the files left behind.  smoke is "off"
\* (no --smoke), "pass" or "fail" (exit status of run_smoke.sh).
CmdActivate(file, fs, bak, now, pack_id, smoke) ==
    LET cfg == LoadCfg(file)
        unchanged == [file |-> file, bak |-> bak]
    IN  IF cfg.packs[pack_id] = Null /\ ~fs[pack_id].exists
        THEN [rc |-> "error"] @@ unchanged
        ELSE IF ValidationBlocks(CmdValidate(file, fs, pack_id))
        THEN [rc |-> "error"] @@ unchanged
        ELSE LET w == WriteCfg(file, bak, now,
                               SwitchTo(AutoRegister(cfg, pack_id), pack_id, now))
             IN  IF smoke = "fail"
                 THEN [rc |-> "fail",
                       file |-> RestoreFromBackup(w.file, w.bak, now),
                       bak |-> w.bak]
                 ELSE [rc |-> "ok"] @@ w

\* cmd_rollback: the target is --to, or else _active_pack_prev; without
\* either the command exits with an error.
CmdRollback(file, fs, bak, now, to_pack, smoke) ==
    LET cfg == LoadCfg(file)
        target == IF to_pack # Null THEN to_pack ELSE cfg.prev
    IN  IF target = Null THEN [rc |-> "error", file |-> file, bak |-> bak]
        ELSE CmdActivate(file, fs, bak, now, target, smoke)

\* _pack_base_dir: the directory of a pack as cmd_pack resolves it; a pack
\* that is not in the packs table has no base_dir and resolves to the root.
PackBaseDir(cfg, pid) ==
    IF cfg.packs[pid] = "kgdir" THEN pid ELSE RootDir

\* _build_manifest: one entry per file of the directory, in path order, with
\* the hash of the file.
BuildManifest(files) ==
    [kind |-> "json", files_is_list |-> TRUE,
     files |-> (IF files["guard.json"] # 0
                THEN << [is_obj |-> TRUE, path |-> "guard.json", sha |-> files["guard.json"]] >>
                ELSE << >>)
               \o (IF files["rules.json"] # 0
                   THEN << [is_obj |-> TRUE, path |-> "rules.json", sha |-> files["rules.json"]] >>
                   ELSE << >>)]

\* A directory just made by mkdir.
EmptyDir ==
    [exists |-> TRUE,
     manifest |-> [kind |-> "absent", files_is_list |-> TRUE, files |-> << >>],
     files |-> [p \in CfgPaths |-> 0]]

\* cmd_pack, lines 300-305: shutil.rmtree of an existing destination (only
\* reached with --force), then mkdir.
ClearedForPack(fs, dst) == [fs EXCEPT ![dst] = EmptyDir]

\* cmd_pack: the result code and the files left behind.
CmdPack(file, fs, bak, now, pack_id, from_pack, force) ==
    LET cfg == LoadCfg(file)
        src_pack == IF from_pack # Null THEN from_pack ELSE cfg.active
        src_base == PackBaseDir(cfg, src_pack)
        cleared == ClearedForPack(fs, pack_id)
        rels == CollectExistingRelpaths(cleared, src_base)
        copied == [p \in CfgPaths |-> IF p \in rels THEN cleared[src_base].files[p] ELSE 0]
        packed == [cleared EXCEPT ![pack_id] =
                      [exists |-> TRUE, manifest |-> BuildManifest(copied), files |-> copied]]
        w == WriteCfg(file, bak, now, [cfg EXCEPT !.packs[pack_id] = "kgdir"])
    IN  IF ~fs[src_base].exists \/ (fs[pack_id].exists /\ ~force)
        THEN [rc |-> "error", file |-> file, bak |-> bak, fs |-> fs]
        ELSE IF rels = {}
        THEN [rc |-> "error", file |-> file, bak |-> bak, fs |-> cleared]
        ELSE [rc |-> "ok", file |-> w.file, bak |-> w.bak, fs |-> packed]

\* cmd_eval: smoke on the baseline, activate the candidate with --smoke,
\* then (without --keep) activate the baseline again without smoke.
CmdEval(file, fs, bak, now, candidate, baseline_smoke, candidate_smoke, keep) ==
    LET baseline_pack == LoadCfg(file).active
        r == CmdActivate(file, fs, bak, now, candidate, candidate_smoke)
        back == CmdActivate(r.file, fs, r.bak, now, baseline_pack, "off")
    IN  IF baseline_smoke = "fail" THEN [rc |-> "error", file |-> file, bak |-> bak]
        ELSE IF r.rc # "ok" \/ keep THEN r
        ELSE [rc |-> back.rc, file |-> back.file, bak |-> back.bak]

(***************************************************************************)
(* SpecPack: activate and rollback run one after the other on bounded      *)
(* configurations and pack directories.                                    *)
(***************************************************************************)
MaxOps == 2

MaxClock == 1

NoManifest == [kind |-> "absent", files_is_list |-> TRUE, files |-> << >>]

Entry(path, sha) == [is_obj |-> TRUE, path |-> path, sha |-> sha]

ManifestOf(entries) == [kind |-> "json", files_is_list |-> TRUE, files |-> entries]

\* A pack directory as cmd_pack leaves it: every file at content c, listed
\* in the manifest in path order with its hash.
PackedDir(c) ==
    [exists |-> TRUE,
     manifest |-> ManifestOf(<< Entry("guard.json", c), Entry("rules.json", c) >>),
     files |-> [p \in CfgPaths |-> c]]

\* A packed directory one of whose files was edited afterwards.
EditedDir(c, c2) ==
    [PackedDir(c) EXCEPT !.files["rules.json"] = c2]

\* A pack directory as cmd_pack leaves it when the source had no guard.json:
\* the one file copied, and a manifest of it.
PartialDir(c) ==
    [exists |-> TRUE,
     manifest |-> BuildManifest([p \in CfgPaths |-> IF p = "rules.json" THEN c ELSE 0]),
     files |-> [p \in CfgPaths |-> IF p = "rules.json" THEN c ELSE 0]]

\* A directory holding the files without a manifest (root layout).
PlainDir(c) ==
    [exists |-> TRUE, manifest |-> NoManifest, files |-> [p \in CfgPaths |-> c]]

NoDir ==
    [exists |-> FALSE, manifest |-> NoManifest, files |-> [p \in CfgPaths |-> 0]]

NoPacks == [p \in PackIds |-> Null]

\* A ledger that has reached its cap.
FullLedger == [i \in 1..HistCap |-> [from |-> "p2", to |-> "p1", at |-> 0]]

\* Configurations the pack manager can find on disk: a legacy file without
\* active_pack, a file naming the unregistered root pack, files left by
\* earlier activations.
PmInitCfgs ==
    { [active |-> Null, prev |-> Null, hist |-> << >>, packs |-> NoPacks, fmt |-> "raw"],
      [active |-> "default", prev |-> Null, hist |-> << >>,
       packs |-> [NoPacks EXCEPT !["p1"] = "kgdir"], fmt |-> "raw"],
      [active |-> "default", prev |-> Null, hist |-> << >>,
       packs |-> [NoPacks EXCEPT !["default"] = "root", !["p1"] = "kgdir"], fmt |-> "raw"],
      [active |-> "p1", prev |-> "default",
       hist |-> << [from |-> "default", to |-> "p1", at |-> 0] >>,
       packs |-> [NoPacks EXCEPT !["p1"] = "kgdir"], fmt |-> "dumped"],
      [active |-> "p1", prev |-> "p2", hist |-> FullLedger,
       packs |-> [NoPacks EXCEPT !["p1"] = "kgdir", !["p2"] = "kgdir"], fmt |-> "dumped"] }

PmInitFs ==
    { [d \in Dirs |-> IF d = RootDir THEN PlainDir(1)
                      ELSE IF d = "default" THEN dd
                      ELSE IF d = "p1" THEN d1 ELSE d2] :
        dd \in {NoDir, PlainDir(1)},
        d1 \in {PackedDir(1), EditedDir(1, 2), PartialDir(1), NoDir},
        d2 \in {PackedDir(2)} }

SmokeOutcomes == {"off", "pass", "fail"}

PmInit ==
    /\ pm_cfg \in PmInitCfgs
    /\ pm_fs \in PmInitFs
    /\ pm_bak = [t \in 0..MaxClock |-> None]
    /\ pm_now = 0
    /\ pm_log = << >>

\* What the log keeps of an operation: its arguments and result, and the
\* files as they were when it started.
LogEntry(op, pack, smoke, rc) ==
    [op |-> op, pack |-> pack, smoke |-> smoke, rc |-> rc,
     pre |-> pm_cfg, pre_bak |-> pm_bak]

\* A second passes.
Tick ==
    /\ pm_now < MaxClock
    /\ pm_now' = pm_now + 1
    /\ UNCHANGED <<pm_cfg, pm_fs, pm_bak, pm_log>>
    /\ UNCHANGED notPm

\* kg_pack.py activate --pack-id <pack_id> [--smoke]
Activate ==
    /\ Len(pm_log) < MaxOps
    /\ \E pack_id \in PackIds, smoke \in SmokeOutcomes :
          LET r == CmdActivate(pm_cfg, pm_fs, pm_bak, pm_now, pack_id, smoke)
          IN  /\ pm_cfg' = r.file
              /\ pm_bak' = r.bak
              /\ pm_log' = Append(pm_log, LogEntry("activate", pack_id, smoke, r.rc))
    /\ UNCHANGED <<pm_fs, pm_now>>
    /\ UNCHANGED notPm

\* kg_pack.py rollback [--to <pack_id>] [--smoke]
Rollback ==
    /\ Len(pm_log) < MaxOps
    /\ \E to_pack \in {Null, "p2"}, smoke \in SmokeOutcomes :
          LET r == CmdRollback(pm_cfg, pm_fs, pm_bak, pm_now, to_pack, smoke)
          IN  /\ pm_cfg' = r.file
              /\ pm_bak' = r.bak
              /\ pm_log' = Append(pm_log, LogEntry("rollback", to_pack, smoke, r.rc))
    /\ UNCHANGED <<pm_fs, pm_now>>
    /\ UNCHANGED notPm

PmNext == Tick \/ Activate \/ Rollback

(***************************************************************************)
(* SpecStore: every command of the pack manager (pack, validate, activate, *)
(* rollback, eval) run one after the other on the same configurations and  *)
(* pack directories.                                                       *)
(***************************************************************************)

\* kg_pack.py pack --pack-id <pack_id> [--from-pack <from_pack>] [--force]
Pack ==
    /\ Len(pm_log) < MaxOps
    /\ \E pack_id \in PackIds, from_pack \in {Null, "p1"}, force \in BOOLEAN :
          LET r == CmdPack(pm_cfg, pm_fs, pm_bak, pm_now, pack_id, from_pack, force)
          IN  /\ pm_cfg' = r.file
              /\ pm_bak' = r.bak
              /\ pm_fs' = r.fs
              /\ pm_log' = Append(pm_log, LogEntry("pack", pack_id, "off", r.rc))
    /\ UNCHANGED pm_now
    /\ UNCHANGED notPm

\* kg_pack.py validate [--pack-id <pack_id>]
ValidateCmd ==
    /\ Len(pm_log) < MaxOps
    /\ \E pack_id \in PackIds :
          pm_log' = Append(pm_log, LogEntry("validate", pack_id, "off",
                                            CmdValidate(pm_cfg, pm_fs, pack_id)))
    /\ UNCHANGED <<pm_cfg, pm_fs, pm_bak, pm_now>>
    /\ UNCHANGED notPm

\* kg_pack.py eval --pack-id <pack_id> [--keep]
Eval ==
    /\ Len(pm_log) < MaxOps
    /\ \E pack_id \in PackIds, baseline_smoke \in {"pass", "fail"},
          candidate_smoke \in {"pass", "fail"}, keep \in BOOLEAN :
          LET r == CmdEval(pm_cfg, pm_fs, pm_bak, pm_now, pack_id, baseline_smoke,
                           candidate_smoke, keep)
          IN  /\ pm_cfg' = r.file
              /\ pm_bak' = r.bak
              /\ pm_log' = Append(pm_log, LogEntry("eval", pack_id, candidate_smoke, r.rc))
    /\ UNCHANGED <<pm_fs, pm_now>>
    /\ UNCHANGED notPm

StNext == Tick \/ Pack \/ ValidateCmd \/ Activate \/ Rollback \/ Eval

(***************************************************************************)
(* SpecValidate: validate run once on a pack directory in any condition:   *)
(* with or without manifest, the manifest well-formed or not, its entries  *)
(* matching the files or not.                                              *)
(***************************************************************************)
MaxEntries == 2

\* The items a manifest's files[] can hold: a non-object, or an object whose
\* path and sha256 are present or missing.
ManifestItems ==
    { [is_obj |-> FALSE, path |-> "", sha |-> 0] }
        \cup { Entry(p, h) : p \in CfgPaths \cup {""}, h \in 0..2 }

RECURSIVE SeqsUpTo(_, _)
SeqsUpTo(S, n) ==
    IF n = 0 THEN { << >> }
    ELSE LET shorter == SeqsUpTo(S, n - 1)
         IN  shorter \cup { Append(q, x) : q \in {r \in shorter : Len(r) = n - 1}, x \in S }

\* The manifests a pack directory can hold.
VlManifests ==
    { NoManifest,
      [kind |-> "invalid", files_is_list |-> TRUE, files |-> << >>],
      [kind |-> "scalar", files_is_list |-> TRUE, files |-> << >>],
      [kind |-> "json", files_is_list |-> FALSE, files |-> << >>] }
        \cup { ManifestOf(es) : es \in SeqsUpTo(ManifestItems, MaxEntries) }

VlDirs ==
    { NoDir } \cup [exists : {TRUE}, manifest : VlManifests, files : [CfgPaths -> 0..2]]

\* Pack p1 unregistered or registered under kg_packs; pack default
\* registered with the root layout.
VlCfgs ==
    { [active |-> "default", prev |-> Null, hist |-> << >>, packs |-> pk, fmt |-> "raw"] :
        pk \in { [NoPacks EXCEPT !["default"] = "root"],
                 [NoPacks EXCEPT !["default"] = "root", !["p1"] = "kgdir"] } }

VlInit ==
    /\ pm_cfg \in VlCfgs
    /\ pm_fs \in { [d \in Dirs |-> IF d = RootDir THEN PlainDir(1)
                                   ELSE IF d = "p1" THEN d1 ELSE NoDir] : d1 \in VlDirs }
    /\ pm_bak = [t \in 0..0 |-> None]
    /\ pm_now = 0
    /\ pm_log = << >>

\* kg_pack.py validate [--pack-id <pid>]; without --pack-id the active pack
\* is validated.
Validate ==
    /\ pm_log = << >>
    /\ \E arg \in {Null, "p1"} :
          LET pid == IF arg # Null THEN arg ELSE LoadCfg(pm_cfg).active
          IN  pm_log' = << LogEntry("validate", pid, "off", CmdValidate(pm_cfg, pm_fs, pid)) >>
    /\ UNCHANGED <<pm_cfg, pm_fs, pm_bak, pm_now>>
    /\ UNCHANGED notPm

(***************************************************************************)
(* SpecProfile: the classifier applied to bounded payloads and rule files. *)
(***************************************************************************)
MaxWords == 4

\* The words a payload's text is drawn from.
TextWords == {"boli_muqiang", "shicai_muqiang", "lvban_muqiang",
              "danyuanshi_muqiang", "zhuangxiu", "paishui", "gongcheng"}

ClPayloads ==
    { [project_type |-> t, text |-> w] :
        t \in {Null, "fangjian"},
        w \in {s \in SUBSET TextWords : Cardinality(s) <= MaxWords} }

ClRules ==
    [base_confidence : {-1, 600, 755, 800, 900},
     auto_accept : {-1, 800, 900},
     require_manual : {-1, 600}]

ClInit ==
    /\ cl_payload \in ClPayloads
    /\ cl_rules \in ClRules
    /\ cl_profile = None

Classify ==
    /\ cl_profile = None
    /\ cl_profile' = Some(GenerateProjectProfile(cl_payload, cl_rules))
    /\ UNCHANGED <<cl_payload, cl_rules>>
    /\ UNCHANGED notCl

(***************************************************************************)
(* SpecRW: cmd_activate taken apart into its file operations, racing with  *)
(* a pipeline stage that calls kg_loader.load_kg_config.                   *)
(*                                                                         *)
(* Path.write_text opens kg_config.json with mode "w", which truncates the *)
(* file, then writes the text and closes.  The text reaches the file in    *)
(* TextChunks write calls; pm_cfg is the text being written and rw_len the *)
(* number of its chunks that are in the file.                              *)
(***************************************************************************)
TextChunks == 2

RwInit ==
    /\ PmInit
    /\ rw_len = TextChunks
    /\ rw_pc = "idle"
    /\ rw_job = None
    /\ rw_seen = None

\* The log entry of the writer's finished command.
JobEntry(job, rc) ==
    [op |-> "activate", pack |-> job.pack, smoke |-> job.smoke, rc |-> rc,
     pre |-> job.pre, pre_bak |-> job.pre_bak]

\* cmd_activate up to the call of _write_cfg: registration check, validation,
\* the new configuration in memory.
WStart ==
    /\ rw_pc = "idle"
    /\ Len(pm_log) < MaxOps
    /\ \E pack_id \in PackIds, smoke \in SmokeOutcomes :
          LET cfg == LoadCfg(pm_cfg)
              job == [pack |-> pack_id, smoke |-> smoke, pre |-> pm_cfg, pre_bak |-> pm_bak,
                      new |-> Dumped(SwitchTo(AutoRegister(cfg, pack_id), pack_id, pm_now))]
          IN  IF \/ cfg.packs[pack_id] = Null /\ ~pm_fs[pack_id].exists
                 \/ ValidationBlocks(CmdValidate(pm_cfg, pm_fs, pack_id))
              THEN /\ pm_log' = Append(pm_log, JobEntry(job, "error"))
                   /\ UNCHANGED <<rw_pc, rw_job>>
              ELSE /\ rw_job' = Some(job)
                   /\ rw_pc' = "backup"
                   /\ UNCHANGED pm_log
    /\ UNCHANGED <<pm_cfg, pm_fs, pm_bak, pm_now, rw_len, rw_seen>>
    /\ UNCHANGED notRw

\* _write_cfg, lines 65-69: the text on disk is copied to the backup file.
WBackup ==
    /\ rw_pc = "backup"
    /\ pm_bak' = [pm_bak EXCEPT ![pm_now] = Some(pm_cfg)]
    /\ rw_pc' = "open"
    /\ UNCHANGED <<pm_cfg, pm_fs, pm_now, pm_log, rw_len, rw_job, rw_seen>>
    /\ UNCHANGED notRw

\* _write_cfg, line 70: write_text opens kg_config.json for writing; the file
\* is empty from here until the first chunk arrives.
WOpen ==
    /\ rw_pc = "open"
    /\ pm_cfg' = rw_job[1].new
    /\ rw_len' = 0
    /\ rw_pc' = "write"
    /\ UNCHANGED <<pm_fs, pm_bak, pm_now, pm_log, rw_job, rw_seen>>
    /\ UNCHANGED notRw

\* One more chunk of the text reaches the file; after the last one the file
\* is closed and the command goes on (smoke run) or ends.
WWrite ==
    /\ rw_pc \in {"write", "restore_write"}
    /\ rw_len' = rw_len + 1
    /\ IF rw_len + 1 < TextChunks
       THEN UNCHANGED <<rw_pc, rw_job, pm_log>>
       ELSE IF rw_pc = "write" /\ rw_job[1].smoke # "off"
       THEN rw_pc' = "smoke" /\ UNCHANGED <<rw_job, pm_log>>
       ELSE /\ rw_pc' = "idle"
            /\ rw_job' = None
            /\ pm_log' = Append(pm_log, JobEntry(rw_job[1],
                                   IF rw_pc = "write" THEN "ok" ELSE "fail"))
    /\ UNCHANGED <<pm_cfg, pm_fs, pm_bak, pm_now, rw_seen>>
    /\ UNCHANGED notRw

\* cmd_activate, lines 382-391: run_smoke.sh has ended.
WSmoke ==
    /\ rw_pc = "smoke"
    /\ IF rw_job[1].smoke = "pass"
       THEN /\ rw_pc' = "idle"
            /\ rw_job' = None
            /\ pm_log' = Append(pm_log, JobEntry(rw_job[1], "ok"))
       ELSE /\ rw_pc' = "restore_open"
            /\ UNCHANGED <<rw_job, pm_log>>
    /\ UNCHANGED <<pm_cfg, pm_fs, pm_bak, pm_now, rw_len, rw_seen>>
    /\ UNCHANGED notRw

\* cmd_activate, line 388: write_text of the backup's text opens
\* kg_config.json for writing.
WRestoreOpen ==
    /\ rw_pc = "restore_open"
    /\ pm_cfg' = RestoreFromBackup(pm_cfg, pm_bak, pm_now)
    /\ rw_len' = 0
    /\ rw_pc' = "restore_write"
    /\ UNCHANGED <<pm_fs, pm_bak, pm_now, pm_log, rw_job, rw_seen>>
    /\ UNCHANGED notRw

\* kg_loader.load_kg_config in a pipeline stage: the file exists, and
\* json.load gets the bytes that are in it at this moment.
RLoad ==
    /\ rw_seen # Some([len |-> rw_len, text |-> pm_cfg])
    /\ rw_seen' = Some([len |-> rw_len, text |-> pm_cfg])
    /\ UNCHANGED <<pm_cfg, pm_fs, pm_bak, pm_now, pm_log, rw_len, rw_pc, rw_job>>
    /\ UNCHANGED notRw

RwNext == WStart \/ WBackup \/ WOpen \/ WWrite \/ WSmoke \/ WRestoreOpen \/ RLoad

(***************************************************************************)
(* The decision pipeline behind /compose and the audit report.             *)
(*                                                                         *)
(* A rule or knowledge file is named by the pack whose base directory it   *)
(* is resolved in and by the configuration key that names it; its SHA-256  *)
(* is modelled by that name.  A text is the sequence of its words, and the *)
(* SHA-256 of serialized JSON is modelled by the serialized token sequence *)
(* (no collisions).                                                        *)
(***************************************************************************)
CoPacks == {"default", "p1"}

\* The configuration keys that name rule and knowledge files.
RuleKinds == {"project_profile_rules", "precheck_guard_rules", "region_upgrade_rules",
              "domain_map", "base_packs"}

\* audit_service: the artifacts of the last run under build/.
Artifacts == {"project_profile", "kg_context", "region_upgrade", "precheck_guard",
              "compose", "retrieve"}

Docx == "compose_output.docx"

BuildFiles == Artifacts \cup {Docx}

\* kg_loader: BASE_DIR / filename, BASE_DIR being the active pack's base_dir.
RulePath(active, kind) == [pack |-> active, kind |-> kind]

\* What is found at a path: a JSON file, nothing, a directory, or a file
\* whose content is not JSON.
FileStates == {"file", "missing", "dir", "garbled"}

FileState(fs, path) == fs[path.pack][path.kind]

PathExists(fs, path) == FileState(fs, path) # "missing"

Range(s) == {s[i] : i \in DOMAIN s}

\* The items of a JSON list of one-word strings.
RECURSIVE DumpItems(_, _, _)
DumpItems(items, i, item_sep) ==
    IF i > Len(items) THEN << >>
    ELSE (IF i > 1 THEN << item_sep >> ELSE << >>)
            \o << "\"", items[i], "\"" >> \o DumpItems(items, i + 1, item_sep)

\* json.dumps(payload, sort_keys=True, separators=(item_sep, key_sep)) of a
\* /compose payload: keys in sorted order, outline before topic.
Dumps(payload, item_sep, key_sep) ==
    << "{", "\"outline\"", key_sep, "[" >> \o DumpItems(payload.outline, 1, item_sep)
        \o << "]", item_sep, "\"topic\"", key_sep, "\"" >> \o payload.topic \o << "\"", "}" >>

Sha256(bytes) == bytes

\* project_profile_service._stable_sha256 (and precheck_guard_service's):
\* compact separators.
StableSha256(obj) == Sha256(Dumps(obj, ",", ":"))

\* build_kg_context, lines 316-320: json.dumps with its default separators.
KgInputSha256(payload) == Sha256(Dumps(payload, ", ", ": "))

NotHefei(w) == w # "(hefei)"

\* main.py, lines 54-57 and 111-114: the city suffix is cut out of the topic.
SanitizeTopic(topic) == SelectSeq(topic, NotHefei)

\* Content of the project_profile rule file of a pack.
ProfileRulesOf(pack) ==
    [base_confidence |-> IF pack = "p1" THEN 800 ELSE -1,
     auto_accept |-> -1, require_manual |-> -1]

\* required_fields of the guard rule file of a pack.
GuardRequiredFields(pack) ==
    IF pack = "p1" THEN {"project_name"}
    ELSE IF pack = "p2" THEN {"topic", "outline"}
    ELSE {}

\* generate_project_profile with its rule-meta patch, on a /compose payload
\* (topic is its only text field: outline is a list).
ProfileOf(req, active) ==
    LET p == GenerateProjectProfile([project_type |-> Null, text |-> Range(req.topic)],
                                    ProfileRulesOf(active))
        path == RulePath(active, "project_profile_rules")
    IN  [input_sha256 |-> StableSha256(req),
         project_type |-> p.project_type,
         decision |-> p.decision,
         rule_path |-> path,
         rule_sha256 |-> Some(path),
         topic |-> None]

DefaultRegionKey == "anhui_hefei_general"

\* The region keys, in sorted order.
RegionKeys == << "anhui_hefei_general", "bozhou", "zz" >>

\* A file name of region_upgrade_rules that is not a string.
NotAString == "<number>"

\* kg_config.json as the pipeline reads it: the active pack (kg_loader's
\* BASE_DIR) and region_upgrade_rules, which is absent, null, a list, or a
\* map from region keys to file names (Null: key not in the map).
KgConfig(active) ==
    [active |-> active,
     region_upgrade_rules |->
         [kind |-> "map",
          map |-> [k \in Range(RegionKeys) |->
                      IF k = DefaultRegionKey THEN "region_upgrade_rules" ELSE Null]]]

\* _pick_default_region_key
PickDefaultRegionKey(cfg) ==
    LET m == cfg.region_upgrade_rules
        keys == {i \in DOMAIN RegionKeys : m.map[RegionKeys[i]] # Null}
    IN  IF m.kind # "map" \/ keys = {} THEN Null
        ELSE IF m.map[DefaultRegionKey] # Null THEN DefaultRegionKey
        ELSE RegionKeys[CHOOSE i \in keys : \A j \in keys : i <= j]

\* The region fields of a payload, in the order _extract_region_key tries
\* them; each is a string or a dict with "key", and key is "" when the field
\* holds no non-blank string.  A /compose payload has none.
RegionFields(payload) == IF "region" \in DOMAIN payload THEN payload.region ELSE << >>

RECURSIVE FirstRegionKey(_, _)
FirstRegionKey(fields, i) ==
    IF i > Len(fields) THEN Null
    ELSE IF fields[i].key # "" THEN fields[i].key
    ELSE FirstRegionKey(fields, i + 1)

\* The region key of a profile; generate_project_profile sets none.
ProfileRegionKey(profile) ==
    IF "region_key" \in DOMAIN profile THEN profile.region_key ELSE Null

\* _extract_region_key: payload, then profile, then the configured default.
ExtractRegionKey(payload, profile, cfg) ==
    IF FirstRegionKey(RegionFields(payload), 1) # Null
    THEN FirstRegionKey(RegionFields(payload), 1)
    ELSE IF ProfileRegionKey(profile) # Null THEN ProfileRegionKey(profile)
    ELSE PickDefaultRegionKey(cfg)

\* kg_loader.get_region_upgrade_rule: mapping.get raises on null and on a
\* list, BASE_DIR / filename raises on a file name that is not a string.
GetRegionUpgradeRule(region_key, cfg) ==
    LET m == cfg.region_upgrade_rules
        filename == IF m.kind = "map" /\ region_key \in DOMAIN m.map
                    THEN m.map[region_key] ELSE Null
    IN  IF m.kind \in {"null", "list"} THEN [raised |-> TRUE, path |-> None]
        ELSE IF filename = Null THEN [raised |-> FALSE, path |-> None]
        ELSE IF filename = NotAString THEN [raised |-> TRUE, path |-> None]
        ELSE [raised |-> FALSE, path |-> Some(RulePath(cfg.active, filename))]

RegionError(code, path) == [code |-> code, path |-> path]

\* resolve_region_upgrade; raised says that the call ended in an exception
\* (from get_region_upgrade_rule, or from _sha256_file on a path that cannot
\* be opened as a file).
ResolveRegionUpgrade(payload, profile, cfg, fs) ==
    LET region_key == ExtractRegionKey(payload, profile, cfg)
        rp == GetRegionUpgradeRule(region_key, cfg)
        out == [raised |-> FALSE,
                applied |-> FALSE,
                region_key |-> region_key,
                rule_path |-> None,
                rule_sha256 |-> None,
                errors |-> << >>,
                project_profile_decision |-> profile.decision,
                input_sha256 |-> profile.input_sha256]
    IN  IF region_key = Null
        THEN [out EXCEPT !.errors = << RegionError("region_key not provided", None) >>]
        ELSE IF rp.raised THEN [out EXCEPT !.raised = TRUE]
        ELSE IF rp.path = None
        THEN [out EXCEPT !.errors = << RegionError("no region_upgrade_rule configured", None) >>]
        ELSE IF FileState(fs, rp.path[1]) = "missing"
        THEN [out EXCEPT !.rule_path = rp.path,
                         !.errors = << RegionError("rule file not found", rp.path) >>]
        ELSE IF FileState(fs, rp.path[1]) = "dir" THEN [out EXCEPT !.raised = TRUE]
        ELSE IF FileState(fs, rp.path[1]) = "garbled"
        THEN [out EXCEPT !.rule_path = rp.path, !.rule_sha256 = rp.path,
                         !.errors = << RegionError("json parse error", None) >>]
        ELSE [out EXCEPT !.applied = TRUE, !.rule_path = rp.path, !.rule_sha256 = rp.path]

\* An entry of the domain map: display name, explicit domain key and slug
\* (Null when it has none), keyword list, description.
DomainEntry(cn_name, domain_key, slug, keywords, desc) ==
    [cn_name |-> cn_name, domain_key |-> domain_key, slug |-> slug,
     keywords |-> keywords, desc |-> desc]

\* The entries of the domain map file, in the order the traversal meets them.
DomainMapEntries == << DomainEntry("zhuangshi_zhuangxiu", "decoration", Null, {}, Null) >>

\* _fallback_domain_key: the first row of _DOMAIN_HINTS that matches.
FallbackDomainKey(words) ==
    IF \E w \in words : \E kw \in {"zhuangshi", "zhuangxiu", "jingzhuang", "shicai"} :
           TextContains({w}, kw) \/ w = "zhuangshi_zhuangxiu"
    THEN "decoration"
    ELSE IF \E w \in words : \E kw \in {"paishui", "yushui", "wushui"} :
                TextContains({w}, kw) \/ w = "shizheng_paishui"
    THEN "municipal_drain"
    ELSE Null

\* _collect_domain_map_entries: uniq[sig] = m keeps one entry per signature
\* (cn_name, en_name, domain key), at the place of the first entry with that
\* signature and with the content of the last one.
Signature(m) == << m.cn_name, m.domain_key >>

LastWithSignature(entries, sig) ==
    entries[CHOOSE i \in DOMAIN entries :
                /\ Signature(entries[i]) = sig
                /\ \A j \in DOMAIN entries : Signature(entries[j]) = sig => j <= i]

RECURSIVE CollectFrom(_, _)
CollectFrom(entries, i) ==
    IF i > Len(entries) THEN << >>
    ELSE IF \E j \in 1..(i - 1) : Signature(entries[j]) = Signature(entries[i])
    THEN CollectFrom(entries, i + 1)
    ELSE << LastWithSignature(entries, Signature(entries[i])) >> \o CollectFrom(entries, i + 1)

CollectDomainMapEntries(entries) == CollectFrom(entries, 1)

\* The domain-indicative words of _score_map_entry.
DomainWords == {"zhuangshi", "zhuangxiu", "fangjian", "shizheng", "daolu", "paishui",
                "yushui", "wushui", "jidian"}

\* `word in name` for a name given as one word.
WordContains(name, word) == name # Null /\ (word = name \/ word \in SubstringsOf(name))

\* _score_map_entry; the query is the set of the words of project type and
\* topic, and is a substring of a name only when it is one word.
ScoreMapEntry(m, query) ==
    IF query = {} THEN 0
    ELSE (IF TextContains(query, m.cn_name) THEN 12 ELSE 0)
         + (IF \E w \in query : query = {w} /\ WordContains(m.cn_name, w) THEN 8 ELSE 0)
         + 3 * Cardinality({kw \in m.keywords : TextContains(query, kw)})
         + 2 * Cardinality({w \in DomainWords :
                               TextContains(query, w) /\ WordContains(m.cn_name, w)})
         + Cardinality({w \in DomainWords :
                           TextContains(query, w) /\ WordContains(m.desc, w)})

\* _resolve_domain, lines 212-222: the first entry with the largest score.
RECURSIVE BestEntry(_, _, _)
BestEntry(entries, query, i) ==
    IF i = Len(entries) THEN i
    ELSE LET rest == BestEntry(entries, query, i + 1)
         IN  IF ScoreMapEntry(entries[i], query) >= ScoreMapEntry(entries[rest], query)
             THEN i ELSE rest

\* _extract_domain_key_from_map: the first key-like field that is set.
ExtractDomainKeyFromMap(m) == IF m.domain_key # Null THEN m.domain_key ELSE m.slug

\* _resolve_domain, lines 190-191: the query, as the set of its words.
DomainQuery(project_type_cn, topic) ==
    {w \in Range(topic) : w # " "}
        \cup (IF project_type_cn # Null THEN {project_type_cn} ELSE {})

\* _resolve_domain: the best entry of the domain map, else the fallback.
ResolveDomain(domain_map_obj, project_type_cn, topic) ==
    LET query == DomainQuery(project_type_cn, topic)
        entries == IF domain_map_obj = None THEN << >>
                   ELSE CollectDomainMapEntries(domain_map_obj[1])
        res == [domain_key |-> Null, matched_cn_name |-> Null, method |-> "none",
                score |-> 0, candidate_count |-> Len(entries)]
        best == entries[BestEntry(entries, query, 1)]
        derived == IF FallbackDomainKey({best.cn_name}) # Null
                   THEN FallbackDomainKey({best.cn_name})
                   ELSE IF best.desc # Null THEN FallbackDomainKey({best.desc}) ELSE Null
        fb == IF project_type_cn # Null /\ FallbackDomainKey({project_type_cn}) # Null
              THEN FallbackDomainKey({project_type_cn})
              ELSE FallbackDomainKey(Range(topic))
    IN  IF entries # << >> /\ ScoreMapEntry(best, query) > 0
        THEN LET found == [res EXCEPT !.matched_cn_name = best.cn_name,
                                      !.score = ScoreMapEntry(best, query)]
             IN  IF ExtractDomainKeyFromMap(best) # Null
                 THEN [found EXCEPT !.domain_key = ExtractDomainKeyFromMap(best),
                                    !.method = "domain_map"]
                 ELSE IF derived # Null
                 THEN [found EXCEPT !.domain_key = derived,
                                    !.method = "domain_map+cn_fallback"]
                 ELSE [found EXCEPT !.method = "domain_map_unkeyed"]
        ELSE IF fb # Null THEN [res EXCEPT !.domain_key = fb, !.method = "fallback"]
        ELSE res

\* The file name of a path: what follows its last "/".  The knowledge file
\* of the pipeline model, base_packs, stands for the universal pack.
PackFileName(path) ==
    CASE path.kind = "base_packs" -> "Universal_Base_Pack.json"
      [] path.kind = "old/Universal_Base_Pack.json" -> "Universal_Base_Pack.json"
      [] OTHER -> path.kind

\* (domain_key or "").strip().lower()
NormalizeDomainKey(domain_key) ==
    CASE domain_key = Null -> ""
      [] domain_key = " Highway " -> "highway"
      [] OTHER -> domain_key

\* _pack_name_map and pick: the last configured path with that file name.
Pick(base_pack_paths, fname) ==
    LET at == {i \in DOMAIN base_pack_paths : PackFileName(base_pack_paths[i]) = fname}
    IN  IF at = {} THEN << >>
        ELSE << base_pack_paths[CHOOSE i \in at : \A j \in at : j <= i] >>

\* _select_base_packs, lines 283-299: the domain-tier pack of a key.
DomainTierPack(dk) ==
    IF dk \in {"municipal_road", "municipal_drain", "highway", "railway"}
    THEN "Transport_Infra_Pack.json"
    ELSE IF dk \in {"mep", "industrial_pipeline", "power_energy"}
    THEN "Energy_Industrial_Pack.json"
    ELSE IF dk \in {"special_medical", "medical"} THEN "Special_Medical_Pack.json"
    ELSE "Civil_Basic_Pack.json"

\* _select_base_packs, lines 301-308: the first occurrence of each path.
RECURSIVE Uniq(_, _)
Uniq(selected, i) ==
    IF i > Len(selected) THEN << >>
    ELSE IF \E j \in 1..(i - 1) : selected[j] = selected[i] THEN Uniq(selected, i + 1)
    ELSE << selected[i] >> \o Uniq(selected, i + 1)

\* _select_base_packs
SelectBasePacks(domain_key, base_pack_paths) ==
    Uniq(Pick(base_pack_paths, "Universal_Base_Pack.json")
             \o Pick(base_pack_paths, "Risk_Specialist_Pack.json")
             \o Pick(base_pack_paths, DomainTierPack(NormalizeDomainKey(domain_key))), 1)

\* build_kg_context
BuildKgContext(req, profile, active, fs) ==
    LET dm == RulePath(active, "domain_map")
        base_pack_paths == << RulePath(active, "base_packs") >>
        domain_map_obj == IF FileState(fs, dm) = "file" THEN Some(DomainMapEntries) ELSE None
        domain_res == ResolveDomain(domain_map_obj, profile.project_type.value, req.topic)
        selected_paths == SelectBasePacks(domain_res.domain_key, base_pack_paths)
    IN  [input_sha256 |-> KgInputSha256(req),
         domain_map |-> [path |-> dm,
                         exists |-> PathExists(fs, dm),
                         sha256 |-> IF FileState(fs, dm) \in {"file", "garbled"}
                                    THEN Some(dm) ELSE None],
         domain_resolution |-> domain_res,
         selected_packs |-> {[path |-> p, exists |-> PathExists(fs, p)] :
                                p \in Range(selected_paths)}]

\* A text is blank when strip() leaves nothing of it.
IsBlankText(text) == \A i \in DOMAIN text : text[i] = " "

\* The fields of a payload besides topic and outline that hold a non-empty
\* value; a /compose payload has none.
PayloadExtras(req) == IF "extra" \in DOMAIN req THEN req.extra ELSE {}

\* _is_empty(payload.get(f))
IsEmptyField(req, f) ==
    \/ f = "topic" /\ IsBlankText(req.topic)
    \/ f = "outline" /\ req.outline = << >>
    \/ f \notin {"topic", "outline"} /\ f \notin PayloadExtras(req)

\* run_precheck_guard, part C: the required fields the payload lacks.
MissingRequiredFields(req, rf) == {f \in rf : IsEmptyField(req, f)}

\* Mutant of ProfileDecisionCheck: the profile decision is not looked at.
ProfileDecisionIgnored(pp_decision) == TRUE

\* run_precheck_guard, line 113: ok_pp
ProfileDecisionCheck(pp_decision) == pp_decision # "block_and_review"

\* Mutant of AllPassed: the first check decides.
FirstPassed(details) == details[1].passed

\* run_precheck_guard, line 155: all(d.get("passed") for d in details)
AllPassed(details) == \A i \in DOMAIN details : details[i].passed

GuardDetail(check_id, passed) == [check_id |-> check_id, passed |-> passed]

\* A reasons entry; the message of MISSING_REQUIRED_FIELDS names the fields.
GuardReason(code, fields) == [code |-> code, severity |-> "ERROR", fields |-> fields]

\* A suggested_actions string; the last one names the missing fields.
GuardAction(text, fields) == [text |-> text, fields |-> fields]

\* _humanize: the text has one line for the verdict, one each for
\* rule_path, rule_sha256 and project_profile_decision, one per reason
\* (severity, code, message) and one per suggested action; it is modelled
\* by what those lines show.
Humanize(evaluation) ==
    [passed |-> evaluation.passed,
     rule_path |-> evaluation.rule_path,
     rule_sha256 |-> evaluation.rule_sha256,
     project_profile_decision |-> evaluation.project_profile_decision,
     reasons |-> evaluation.reasons,
     suggested_actions |-> evaluation.suggested_actions]

\* run_precheck_guard; raised says that the call ended in an exception
\* (read_bytes on a rule path that exists but is a directory).  A rule file
\* that is missing or not JSON declares no required fields.
RunPrecheckGuard(req, profile, active, fs) ==
    LET rule_path == RulePath(active, "precheck_guard_rules")
        state == FileState(fs, rule_path)
        rf == IF state = "file" THEN GuardRequiredFields(active) ELSE {}
        ok_topic == ~IsBlankText(req.topic)
        ok_outline == req.outline # << >>
        ok_pp == ProfileDecisionCheck(profile.decision)
        missing == MissingRequiredFields(req, rf)
        details == << GuardDetail("TOPIC_REQUIRED", ok_topic),
                      GuardDetail("OUTLINE_REQUIRED", ok_outline),
                      GuardDetail("PROJECT_PROFILE_DECISION", ok_pp) >>
                   \o (IF rf # {} THEN << GuardDetail("REQUIRED_FIELDS_FROM_RULE", missing = {}) >>
                       ELSE << >>)
        reasons == (IF ok_topic THEN << >> ELSE << GuardReason("TOPIC_EMPTY", {}) >>)
                   \o (IF ok_outline THEN << >> ELSE << GuardReason("OUTLINE_EMPTY", {}) >>)
                   \o (IF ok_pp THEN << >> ELSE << GuardReason("LOW_CONFIDENCE_PROFILE", {}) >>)
                   \o (IF missing = {} THEN << >>
                       ELSE << GuardReason("MISSING_REQUIRED_FIELDS", missing) >>)
        suggested_actions ==
            (IF ok_topic THEN << >> ELSE << GuardAction("add a topic", {}) >>)
            \o (IF ok_outline THEN << >> ELSE << GuardAction("add an outline", {}) >>)
            \o (IF ok_pp THEN << >>
                ELSE << GuardAction("add project information or project_type", {}),
                        GuardAction("put a trade keyword in the topic", {}) >>)
            \o (IF missing = {} THEN << >> ELSE << GuardAction("fill the fields", missing) >>)
        evaluation == [raised |-> state = "dir",
                       passed |-> AllPassed(details),
                       rule_path |-> rule_path,
                       rule_sha256 |-> IF state = "missing" THEN None ELSE Some(rule_path),
                       input_sha256 |-> StableSha256(req),
                       project_profile_decision |-> profile.decision,
                       reasons |-> reasons,
                       suggested_actions |-> suggested_actions,
                       details |-> details]
    IN  [raised |-> evaluation.raised,
         passed |-> evaluation.passed,
         rule_path |-> evaluation.rule_path,
         rule_sha256 |-> evaluation.rule_sha256,
         input_sha256 |-> evaluation.input_sha256,
         project_profile_decision |-> evaluation.project_profile_decision,
         reasons |-> evaluation.reasons,
         suggested_actions |-> evaluation.suggested_actions,
         details |-> evaluation.details,
         human_readable |-> Humanize(evaluation)]

\* The pack identity computed from kg_config.json and the manifest of the
\* active pack (main.py 266-291, retrieve_service.py 279-306).  The root
\* layout (pack default) has no manifest.json; the hash of a manifest is
\* modelled by the pack it belongs to.
PackIdentity(active) ==
    [active_pack |-> active,
     manifest_exists |-> active # "default",
     manifest_sha256 |-> IF active # "default" THEN Some(active) ELSE None]

\* data.get("kg_pack") of a build file: << >> when the file is absent, has
\* no such key, or holds null.
KgPackOf(file) ==
    IF file # None /\ "kg_pack" \in DOMAIN file[1] THEN file[1].kg_pack ELSE None

\* retrieve_service.retrieve: the trace it writes to build/retrieve.json.  The
\* packs searched are those of build/kg_context.json when one of them exists,
\* else the configured base packs; the kg_pack stamp is that of
\* build/kg_context.json, or else computed from kg_config.json.
Retrieve(query, build, active, fs) ==
    LET kc == build["kg_context"]
        from_ctx == kc # None /\ \E p \in kc[1].selected_packs : PathExists(fs, p.path)
    IN  [query |-> query,
         source |-> IF from_ctx THEN "build/kg_context.json" ELSE "kg_config.base_packs",
         kg_pack |-> IF KgPackOf(kc) # None THEN KgPackOf(kc)
                     ELSE Some(PackIdentity(active))]

\* debug_kg_pack: the response of GET /debug/kg_pack.
DebugKgPackReport(build, active) ==
    LET current_config_pack == PackIdentity(active)
        last_build_pack == KgPackOf(build["kg_context"])
    IN  [stale |-> IF last_build_pack = None THEN FALSE
                   ELSE \/ current_config_pack.active_pack # last_build_pack[1].active_pack
                        \/ current_config_pack.manifest_sha256
                              # last_build_pack[1].manifest_sha256,
         current_config_pack |-> current_config_pack,
         last_build_pack |-> last_build_pack]

\* build_sections_from_kg, lines 230-234: the evidence query.
EvidenceQuery(req, topic_arg, kg_context) ==
    [topic |-> IF topic_arg # << >> THEN topic_arg ELSE req.topic,
     domain_key |-> IF kg_context = None THEN Null
                    ELSE kg_context[1].domain_resolution.domain_key]

\* build_sections_from_kg: the sections it returns (trace summary, evidence,
\* work items, one placeholder per outline item).
BuildSectionsFromKg(req, precheck, kg_context) ==
    [origin |-> "kg",
     count |-> 3 + Len(req.outline),
     guard_line |-> IF precheck = None THEN "None"
                    ELSE IF precheck[1].passed THEN "True" ELSE "False",
     domain_key |-> IF kg_context = None THEN Null
                    ELSE kg_context[1].domain_resolution.domain_key,
     content |-> None]

\* main.py, line 74: the one section that stands in when the compose-engine
\* block fails; its content is the failure note.
FallbackSections ==
    [origin |-> "fallback", count |-> 1, guard_line |-> "None", domain_key |-> Null,
     content |-> None]

\* compose_engine.Composer.compose: the sample section.
ComposerSections ==
    [origin |-> "composer", count |-> 1, guard_line |-> "None", domain_key |-> Null,
     content |-> None]

\* Mutant of BlockedSections: the report section without the gate's text.
BlockedSectionsBare(precheck) ==
    [origin |-> "blocked", count |-> 1, guard_line |-> "False", domain_key |-> Null,
     content |-> None]

\* main.py, lines 139-158: the sections of a blocked response, one section
\* whose content is the gate's human_readable text.
BlockedSections(precheck) ==
    [origin |-> "blocked", count |-> 1, guard_line |-> "False", domain_key |-> Null,
     content |-> Some(precheck.human_readable)]

\* Mutant of WriteJson: the file is not written.
WriteJsonSkipped(build, name, obj) == build

\* json.dump(obj, open('build/<name>.json', 'w'))
WriteJson(build, name, obj) == [build EXCEPT ![name] = Some(obj)]

\* The rule and knowledge files whose paths the artifacts of the last run
\* carry.
RunReferences(build) ==
    (IF build["project_profile"] # None THEN {build["project_profile"][1].rule_path} ELSE {})
    \cup (IF build["precheck_guard"] # None THEN {build["precheck_guard"][1].rule_path} ELSE {})
    \cup (IF build["region_upgrade"] # None
          THEN Range(build["region_upgrade"][1].rule_path) ELSE {})
    \cup (IF build["kg_context"] # None
          THEN {build["kg_context"][1].domain_map.path}
                   \cup {p.path : p \in build["kg_context"][1].selected_packs}
          ELSE {})

\* Mutant of ReplayRuleFiles: the files the last run stamped are required.
ReplayRuleFilesOfRun(build, active) == RunReferences(build)

\* build_audit_report, lines 288-323: the rule files replay requires, all
\* resolved from the configuration read at audit time.
ReplayRuleFiles(build, active) == {RulePath(active, k) : k \in RuleKinds}

\* audit_service._sha256_file: the hash of what is at a path, null unless it
\* is a file.  The hash of a file is modelled by the file itself: files of
\* different packs differ in content.
AuditSha256File(fs, path) ==
    IF FileState(fs, path) \in {"file", "garbled"} THEN Some(path) ELSE None

\* build_audit_report, lines 178, 195, 219, 237: sha256_match is null unless
\* the file has a hash and the artifact carries one.
Sha256Match(sha, expected) ==
    IF sha # None /\ expected # None THEN Some(sha = expected) ELSE None

\* build_audit_report, lines 205-210: the region rule file of the audit, for
\* the region key of region_upgrade.json or else the first configured key.
AuditRegionRule(build, cfg) ==
    LET ru == build["region_upgrade"]
        m == cfg.region_upgrade_rules
        keys == {i \in DOMAIN RegionKeys : m.map[RegionKeys[i]] # Null}
        first_key == IF keys = {} THEN Null
                     ELSE RegionKeys[CHOOSE i \in keys : \A j \in keys : i <= j]
        region_key == IF ru # None /\ ru[1].region_key # Null THEN ru[1].region_key
                      ELSE first_key
    IN  IF region_key = Null THEN None ELSE GetRegionUpgradeRule(region_key, cfg).path

\* build_audit_report, lines 167-242: sha256_match of the four rule-file
\* checks.
AuditChecks(build, active, fs) ==
    LET stamp(a) == IF build[a] # None THEN build[a][1].rule_sha256 ELSE None
        rp == AuditRegionRule(build, KgConfig(active))
    IN  [project_profile_rule_file |->
             Sha256Match(AuditSha256File(fs, RulePath(active, "project_profile_rules")),
                         stamp("project_profile")),
         precheck_guard_rule_file |->
             Sha256Match(AuditSha256File(fs, RulePath(active, "precheck_guard_rules")),
                         stamp("precheck_guard")),
         region_upgrade_rule_file |->
             Sha256Match(IF rp # None THEN AuditSha256File(fs, rp[1]) ELSE None,
                         stamp("region_upgrade")),
         domain_map_rule_file |->
             Sha256Match(AuditSha256File(fs, RulePath(active, "domain_map")),
                         IF build["kg_context"] # None
                         THEN build["kg_context"][1].domain_map.sha256 ELSE None)]

\* build_audit_report: the replay section, the input_sha256 check and the
\* rule-file checks, with the disk state the report was computed from.
BuildAuditReport(build, active, fs) ==
    LET missing_artifacts == {a \in Artifacts : build[a] = None}
        missing_rules == {p \in ReplayRuleFiles(build, active) : ~PathExists(fs, p)}
        stamped == {a \in {"project_profile", "kg_context", "region_upgrade",
                          "precheck_guard"} : build[a] # None}
        candidates == {build[a][1].input_sha256 : a \in stamped}
    IN  [replayable |-> missing_artifacts = {} /\ missing_rules = {},
         missing_artifacts |-> missing_artifacts,
         missing_rules |-> missing_rules,
         input_sha256_consistency |-> Cardinality(candidates) <= 1,
         checks |-> AuditChecks(build, active, fs),
         at |-> [build |-> build, active |-> active, fs |-> fs]]

(***************************************************************************)
(* SpecCompose: POST /compose step by step (one step per stage that reads  *)
(* kg_config.json), GET /audit, and the pack manager changing the active   *)
(* pack in between.  Pack p1 may lack one of the configured rule files.    *)
(***************************************************************************)
MaxRequests == 1

MaxSwitches == 1

\* Topics: empty, one with a classifier keyword and the city suffix, one
\* without keyword.
CoTopics == { << >>, << "zhuangxiu", "(hefei)" >>, << "gongcheng" >> }

\* Outlines: empty, two items.
CoOutlines == { << >>, << "gaikuang", "zhiliang" >> }

\* ComposeRequest: topic is a string and outline a list of strings.
CoRequests == [topic : CoTopics, outline : CoOutlines]

EmptyLocals == [profile |-> None, upgrade |-> None, kg_context |-> None,
                precheck |-> None, result |-> None]

\* The files of a pack, all of them JSON files.
AllFiles == [k \in RuleKinds |-> "file"]

\* What may be wrong with pack p1: nothing, or one rule file that is missing
\* or whose path is a directory.
CoDefects ==
    { AllFiles,
      [AllFiles EXCEPT !["precheck_guard_rules"] = "missing"],
      [AllFiles EXCEPT !["region_upgrade_rules"] = "missing"],
      [AllFiles EXCEPT !["project_profile_rules"] = "missing"],
      [AllFiles EXCEPT !["precheck_guard_rules"] = "dir"],
      [AllFiles EXCEPT !["region_upgrade_rules"] = "dir"] }

CoInit ==
    /\ co_req = None
    /\ co_pc = "idle"
    /\ co_loc = EmptyLocals
    /\ co_build = [f \in BuildFiles |-> None]
    /\ co_written = {}
    /\ co_steps = << >>
    /\ co_resp = "none"
    /\ co_active \in CoPacks
    /\ co_fs \in { [p \in CoPacks |-> IF p = "p1" THEN files ELSE AllFiles] :
                     files \in CoDefects }
    /\ co_audit = None
    /\ co_n = 0
    /\ co_switches = 0

\* compose(), lines 42-46: the request arrives and is classified.  Reading a
\* rule file that cannot be read as JSON raises, and the request ends with
\* an error before anything is written.
Receive ==
    /\ co_pc = "idle"
    /\ co_n < MaxRequests
    /\ \E req \in CoRequests :
          /\ co_req' = Some(req)
          /\ IF FileState(co_fs, RulePath(co_active, "project_profile_rules")) = "file"
             THEN /\ co_loc' = [EmptyLocals EXCEPT !.profile = Some(ProfileOf(req, co_active))]
                  /\ co_pc' = "sections"
                  /\ co_resp' = "none"
             ELSE /\ co_loc' = EmptyLocals
                  /\ co_pc' = "idle"
                  /\ co_resp' = "error"
    /\ co_steps' = << "classify" >>
    /\ co_written' = {}
    /\ co_n' = co_n + 1
    /\ UNCHANGED <<co_build, co_active, co_fs, co_audit, co_switches>>
    /\ UNCHANGED notCo

\* compose(), lines 48-79: the compose-engine block (build_sections_from_kg,
\* which calls retrieve, which writes build/retrieve.json), then
\* build/project_profile.json.  build_sections_from_kg may raise while it
\* reads the files under build/ (before it calls retrieve); the block
\* catches that and puts the fallback section in place.
PreGateSections ==
    /\ co_pc = "sections"
    /\ \E throws \in BOOLEAN :
          LET req == co_req[1]
              query == EvidenceQuery(req, SanitizeTopic(req.topic), None)
              trace == Retrieve(query, co_build, co_active, co_fs)
          IN  IF throws
              THEN /\ co_build' = WriteJson(co_build, "project_profile", co_loc.profile[1])
                   /\ co_loc' = [co_loc EXCEPT !.result = Some(FallbackSections)]
                   /\ co_written' = co_written \cup {"project_profile"}
                   /\ co_steps' = co_steps \o << "build_sections", "enrichment_failed" >>
              ELSE /\ co_build' = WriteJson(WriteJson(co_build, "retrieve", trace),
                                            "project_profile", co_loc.profile[1])
                   /\ co_loc' = [co_loc EXCEPT
                                    !.result = Some(BuildSectionsFromKg(req, None, None))]
                   /\ co_written' = co_written \cup {"retrieve", "project_profile"}
                   /\ co_steps' = co_steps \o << "build_sections", "retrieve" >>
    /\ co_pc' = "region"
    /\ UNCHANGED <<co_req, co_resp, co_active, co_fs, co_audit, co_n, co_switches>>
    /\ UNCHANGED notCo

\* compose(), lines 81-87: the region stage and build/region_upgrade.json;
\* an exception of resolve_region_upgrade ends the request.
Region ==
    /\ co_pc = "region"
    /\ LET up == ResolveRegionUpgrade(co_req[1], co_loc.profile[1], KgConfig(co_active), co_fs)
       IN  IF up.raised
           THEN /\ co_pc' = "idle"
                /\ co_resp' = "error"
                /\ UNCHANGED <<co_loc, co_build, co_written>>
           ELSE /\ co_loc' = [co_loc EXCEPT !.upgrade = Some(up)]
                /\ co_build' = WriteJson(co_build, "region_upgrade", up)
                /\ co_written' = co_written \cup {"region_upgrade"}
                /\ co_pc' = "kg_context"
                /\ UNCHANGED co_resp
    /\ co_steps' = Append(co_steps, "region")
    /\ UNCHANGED <<co_req, co_active, co_fs, co_audit, co_n, co_switches>>
    /\ UNCHANGED notCo

\* compose(), lines 91-97: the KG context stage and build/kg_context.json.
KgContext ==
    /\ co_pc = "kg_context"
    /\ LET kg == BuildKgContext(co_req[1], co_loc.profile[1], co_active, co_fs)
       IN  /\ co_loc' = [co_loc EXCEPT !.kg_context = Some(kg)]
           /\ co_build' = WriteJson(co_build, "kg_context", kg)
    /\ co_written' = co_written \cup {"kg_context"}
    /\ co_steps' = Append(co_steps, "kg_context")
    /\ co_pc' = "gate"
    /\ UNCHANGED <<co_req, co_resp, co_active, co_fs, co_audit, co_n, co_switches>>
    /\ UNCHANGED notCo

\* compose(), lines 99-161: the profile in memory gets its topic (the rest
\* of the enrichment raises NameError and the file is not rewritten), the
\* gate is evaluated and build/precheck_guard.json written; a request that
\* does not pass is answered with the blocked result, saved as
\* build/compose.json.  An exception of run_precheck_guard ends the request.
Gate ==
    /\ co_pc = "gate"
    /\ LET req == co_req[1]
           profile == [co_loc.profile[1] EXCEPT !.topic = Some(SanitizeTopic(req.topic))]
           precheck == RunPrecheckGuard(req, profile, co_active, co_fs)
           blocked == [status |-> "blocked", topic |-> req.topic, outline |-> req.outline,
                       sections |-> BlockedSections(precheck)]
       IN  IF precheck.raised
           THEN /\ co_loc' = [co_loc EXCEPT !.profile = Some(profile)]
                /\ co_pc' = "idle"
                /\ co_resp' = "error"
                /\ UNCHANGED <<co_build, co_written>>
           ELSE /\ co_loc' = [co_loc EXCEPT !.profile = Some(profile),
                                            !.precheck = Some(precheck)]
                /\ IF precheck.passed
                   THEN /\ co_build' = WriteJson(co_build, "precheck_guard", precheck)
                        /\ co_written' = co_written \cup {"precheck_guard"}
                        /\ co_pc' = "compose"
                        /\ UNCHANGED co_resp
                   ELSE /\ co_build' = WriteJson(WriteJson(co_build, "precheck_guard", precheck),
                                                 "compose", blocked)
                        /\ co_written' = co_written \cup {"precheck_guard", "compose"}
                        /\ co_pc' = "idle"
                        /\ co_resp' = "blocked"
    /\ co_steps' = Append(co_steps, "gate")
    /\ UNCHANGED <<co_req, co_active, co_fs, co_audit, co_n, co_switches>>
    /\ UNCHANGED notCo

\* compose(), lines 163-215: Composer.compose, build_sections_from_kg again
\* (with its retrieve), build/compose.json with status ok, the rendered
\* document.  When build_sections_from_kg raises, the handler passes over it
\* and the result of Composer.compose stays.
Compose ==
    /\ co_pc = "compose"
    /\ \E throws \in BOOLEAN :
          LET req == co_req[1]
              query == EvidenceQuery(req, req.topic, co_loc.kg_context)
              trace == Retrieve(query, co_build, co_active, co_fs)
              sections == IF throws THEN ComposerSections
                          ELSE BuildSectionsFromKg(req, co_loc.precheck, co_loc.kg_context)
              saved == [status |-> "ok", topic |-> req.topic, outline |-> req.outline,
                        sections |-> sections, kg_pack |-> KgPackOf(co_loc.kg_context)]
              rendered == WriteJson(WriteJson(co_build, "compose", saved),
                                    Docx, [sections |-> sections])
          IN  /\ co_loc' = [co_loc EXCEPT !.result = Some(sections)]
              /\ IF throws
                 THEN /\ co_build' = rendered
                      /\ co_written' = co_written \cup {"compose", Docx}
                      /\ co_steps' = co_steps \o << "composer", "build_sections",
                                                    "enrichment_failed", "render" >>
                 ELSE /\ co_build' = WriteJson(rendered, "retrieve", trace)
                      /\ co_written' = co_written \cup {"retrieve", "compose", Docx}
                      /\ co_steps' = co_steps \o << "composer", "build_sections",
                                                    "retrieve", "render" >>
    /\ co_pc' = "idle"
    /\ co_resp' = "ok"
    /\ UNCHANGED <<co_req, co_active, co_fs, co_audit, co_n, co_switches>>
    /\ UNCHANGED notCo

\* kg_pack.py activate or rollback: another pack becomes the active one.
SwitchPack ==
    /\ co_switches < MaxSwitches
    /\ \E p \in CoPacks \ {co_active} : co_active' = p
    /\ co_switches' = co_switches + 1
    /\ UNCHANGED <<co_req, co_pc, co_loc, co_build, co_written, co_steps, co_resp, co_fs,
                   co_audit, co_n>>
    /\ UNCHANGED notCo

\* GET /audit
Audit ==
    /\ co_audit = None
    /\ co_audit' = Some(BuildAuditReport(co_build, co_active, co_fs))
    /\ UNCHANGED <<co_req, co_pc, co_loc, co_build, co_written, co_steps, co_resp, co_active,
                   co_fs, co_n, co_switches>>
    /\ UNCHANGED notCo

\* GET /debug/kg_pack; fn_in keeps what the handler read.
DebugKgPack ==
    /\ fn_out = None
    /\ fn_in' = Some([kg_context |-> co_build["kg_context"], active |-> co_active])
    /\ fn_out' = Some(DebugKgPackReport(co_build, co_active))
    /\ UNCHANGED notFn

CoNext ==
    \/ Receive \/ PreGateSections \/ Region \/ KgContext \/ Gate \/ Compose
    \/ SwitchPack \/ Audit \/ DebugKgPack

(***************************************************************************)
(* SpecGuard: run_precheck_guard called once on a bounded payload, profile *)
(* and guard rule file.                                                    *)
(***************************************************************************)

\* Topics: none, blanks only, one word.
GdTopics == { << >>, << " " >>, << "zhuangxiu" >> }

\* Outlines: empty, one item.
GdOutlines == { << >>, << "gaikuang" >> }

\* Payloads: topic, outline and the other fields that hold a value.
GdRequests == [topic : GdTopics, outline : GdOutlines, extra : SUBSET {"project_name"}]

\* Profiles: the three decisions, and a profile without decision.
GdProfiles == [decision : {"auto_accept", "require_manual_confirm", "block_and_review", Null}]

\* The disk: the guard rule file of every pack in the given state.
GdDisk(state) ==
    [p \in PackIds |-> [k \in RuleKinds |->
        IF k = "precheck_guard_rules" THEN state ELSE "file"]]

GdInputs == [req : GdRequests, profile : GdProfiles, active : PackIds, state : FileStates]

GdInit ==
    /\ fn_in \in GdInputs
    /\ fn_out = None

\* run_precheck_guard(payload, project_profile)
CallGuard(in) == RunPrecheckGuard(in.req, in.profile, in.active, GdDisk(in.state))

RunGuard ==
    /\ fn_out = None
    /\ fn_out' = Some(CallGuard(fn_in))
    /\ UNCHANGED fn_in
    /\ UNCHANGED notFn

(***************************************************************************)
(* SpecSelect: _select_base_packs called once on a domain key and a        *)
(* configured list of base packs.                                          *)
(***************************************************************************)

\* The configured paths a list is made of: the six packs, and a second path
\* with the file name of the universal pack.
SlPaths ==
    << RulePath("default", "Universal_Base_Pack.json"),
       RulePath("default", "Risk_Specialist_Pack.json"),
       RulePath("default", "Transport_Infra_Pack.json"),
       RulePath("default", "Energy_Industrial_Pack.json"),
       RulePath("default", "Special_Medical_Pack.json"),
       RulePath("default", "Civil_Basic_Pack.json"),
       RulePath("default", "old/Universal_Base_Pack.json") >>

Reverse(seq) == [i \in 1..Len(seq) |-> seq[Len(seq) + 1 - i]]

\* base_packs of kg_config.json: any of the paths, in this order or the
\* reverse one.
SlLists ==
    UNION { { SelectSeq(SlPaths, LAMBDA q : q \in chosen),
              Reverse(SelectSeq(SlPaths, LAMBDA q : q \in chosen)) } :
            chosen \in SUBSET Range(SlPaths) }

\* Domain keys: absent, unrecognized, one of each tier, one to be stripped
\* and lowered.
SlKeys == { Null, "decoration", "unknown", "highway", " Highway ", "mep", "medical" }

SlInit ==
    /\ fn_in \in [domain_key : SlKeys, base_pack_paths : SlLists]
    /\ fn_out = None

RunSelect ==
    /\ fn_out = None
    /\ fn_out' = Some(SelectBasePacks(fn_in.domain_key, fn_in.base_pack_paths))
    /\ UNCHANGED fn_in
    /\ UNCHANGED notFn

(***************************************************************************)
(* SpecDomain: _resolve_domain called once on a bounded domain catalogue   *)
(* and query.                                                              *)
(***************************************************************************)
MaxCatalogue == 3

\* Catalogue entries: two with the same name and no domain key (one with a
\* keyword and slug building, one with slug other), one keyed entry, one
\* unkeyed entry with the keyword of the first.
DmEntries ==
    { DomainEntry("jia_lei", Null, "building", {"gaozhimo"}, Null),
      DomainEntry("jia_lei", Null, "other", {}, Null),
      DomainEntry("zhuangshi_zhuangxiu", "decoration", Null, {}, Null),
      DomainEntry("shizheng_paishui", Null, Null, {"gaozhimo"}, Null) }

\* The maps lists of a domain map file, as the traversal meets them: up to
\* MaxCatalogue different entries in any order.
DmCatalogues ==
    { c \in UNION { [1..n -> DmEntries] : n \in 0..MaxCatalogue } :
        \A i, j \in DOMAIN c : c[i] = c[j] => i = j }

DmTopics == { << >>, << "gaozhimo" >>, << "zhuangshi_zhuangxiu" >> }

DmProjectTypes == { Null, "shizheng_paishui" }

DmInit ==
    /\ fn_in \in [domain_map : DmCatalogues, project_type_cn : DmProjectTypes,
                  topic : DmTopics]
    /\ fn_out = None

RunResolveDomain ==
    /\ fn_out = None
    /\ fn_out' = Some(ResolveDomain(Some(fn_in.domain_map), fn_in.project_type_cn,
                                    fn_in.topic))
    /\ UNCHANGED fn_in
    /\ UNCHANGED notFn

(***************************************************************************)
(* SpecRegion: resolve_region_upgrade called once on a bounded payload,    *)
(* profile, region-rule configuration and disk.                            *)
(***************************************************************************)

\* The rule files region_upgrade_rules may name.
RgFiles == {"region_upgrade_rules", "bozhou_rules"}

\* The region fields of the payload: none, a blank one, a key, a blank one
\* followed by a key.
RgPayloads ==
    [region : { << >>, << [key |-> ""] >>, << [key |-> "bozhou"] >>,
                << [key |-> ""], [key |-> "zz"] >>,
                << [key |-> "anhui_hefei_general"] >> }]

\* Profiles with and without a region key.
RgProfiles ==
    [region_key : {Null, "bozhou"}, decision : {"auto_accept"}, input_sha256 : {<< >>}]

NoRegionRules == [k \in Range(RegionKeys) |-> Null]

\* region_upgrade_rules: absent, null, a list, or a map in which the default
\* key may name a file and the key bozhou may name a file or a number.
RgRules ==
    { [kind |-> kind, map |-> NoRegionRules] : kind \in {"absent", "null", "list"} }
    \cup { [kind |-> "map",
            map |-> [NoRegionRules EXCEPT ![DefaultRegionKey] = general, !["bozhou"] = bozhou]] :
           general \in {Null, "region_upgrade_rules"},
           bozhou \in {Null, "bozhou_rules", NotAString} }

\* The disk: each of the rule files in any state.
RgDisks == { [p \in {"default"} |-> files] : files \in [RgFiles -> FileStates] }

RgInputs == [payload : RgPayloads, profile : RgProfiles, rules : RgRules, fs : RgDisks]

\* load_kg_config for the configuration of an input.
RgConfig(in) == [active |-> "default", region_upgrade_rules |-> in.rules]

RgInit ==
    /\ fn_in \in RgInputs
    /\ fn_out = None

RunResolveRegion ==
    /\ fn_out = None
    /\ fn_out' = Some(ResolveRegionUpgrade(fn_in.payload, fn_in.profile, RgConfig(fn_in),
                                           fn_in.fs))
    /\ UNCHANGED fn_in
    /\ UNCHANGED notFn

(***************************************************************************)
(* The specifications.  Each one holds the variables of the others at a    *)
(* fixed value.                                                            *)
(***************************************************************************)

\* The classifier's variables while another specification runs.
ClIdle ==
    /\ cl_payload = [project_type |-> Null, text |-> {}]
    /\ cl_rules = [base_confidence |-> -1, auto_accept |-> -1, require_manual |-> -1]
    /\ cl_profile = None

\* The pack manager's variables while another specification runs.
PmIdle ==
    /\ pm_cfg = [active |-> Null, prev |-> Null, hist |-> << >>, packs |-> NoPacks,
                 fmt |-> "raw"]
    /\ pm_fs = [d \in Dirs |-> NoDir]
    /\ pm_bak = [t \in 0..0 |-> None]
    /\ pm_now = 0
    /\ pm_log = << >>

\* No write of kg_config.json is under way.
RwIdle ==
    /\ rw_len = TextChunks
    /\ rw_pc = "idle"
    /\ rw_job = None
    /\ rw_seen = None

\* No request has arrived.
CoIdle ==
    /\ co_req = None
    /\ co_pc = "idle"
    /\ co_loc = EmptyLocals
    /\ co_build = [f \in BuildFiles |-> None]
    /\ co_written = {}
    /\ co_steps = << >>
    /\ co_resp = "none"
    /\ co_active = "default"
    /\ co_fs = [p \in CoPacks |-> [k \in RuleKinds |-> "file"]]
    /\ co_audit = None
    /\ co_n = 0
    /\ co_switches = 0

\* No service function is being called on its own.
FnIdle ==
    /\ fn_in = None
    /\ fn_out = None

ProfileInit == ClInit /\ PmIdle /\ RwIdle /\ CoIdle /\ FnIdle

SpecProfile == ProfileInit /\ [][Classify]_vars

PackInit == PmInit /\ ClIdle /\ RwIdle /\ CoIdle /\ FnIdle

SpecPack == PackInit /\ [][PmNext]_vars

StoreInit == PmInit /\ ClIdle /\ RwIdle /\ CoIdle /\ FnIdle

SpecStore == StoreInit /\ [][StNext]_vars

ValidateInit == VlInit /\ ClIdle /\ RwIdle /\ CoIdle /\ FnIdle

SpecValidate == ValidateInit /\ [][Validate]_vars

WriteInit == RwInit /\ ClIdle /\ CoIdle /\ FnIdle

SpecRW == WriteInit /\ [][RwNext]_vars

ComposeInit == CoInit /\ ClIdle /\ PmIdle /\ RwIdle /\ FnIdle

SpecCompose == ComposeInit /\ [][CoNext]_vars

GuardInit == GdInit /\ ClIdle /\ PmIdle /\ RwIdle /\ CoIdle

SpecGuard == GuardInit /\ [][RunGuard]_vars

SelectInit == SlInit /\ ClIdle /\ PmIdle /\ RwIdle /\ CoIdle

SpecSelect == SelectInit /\ [][RunSelect]_vars

DomainInit == DmInit /\ ClIdle /\ PmIdle /\ RwIdle /\ CoIdle

SpecDomain == DomainInit /\ [][RunResolveDomain]_vars

RegionInit == RgInit /\ ClIdle /\ PmIdle /\ RwIdle /\ CoIdle

SpecRegion == RegionInit /\ [][RunResolveRegion]_vars

(***************************************************************************)
(* Claim about the classifier (SpecProfile).                               *)
(***************************************************************************)

\* C2: keyword inference alone (no explicit project-type field) yields a
\* confidence of at most 0.85 that is strictly below the auto_accept threshold
\* in force, so the decision is never auto_accept.
C2_KeywordNeverAutoAccepts ==
    (cl_profile # None /\ cl_payload.project_type = Null)
        => /\ cl_profile[1].project_type.confidence <= KeywordConfidenceCap
           /\ cl_profile[1].project_type.confidence < cl_profile[1].auto_accept
           /\ cl_profile[1].decision # "auto_accept"

(***************************************************************************)
(* Claims about the pack manager (SpecPack).                               *)
(***************************************************************************)

\* The newest operation of the log.
LastOp == pm_log[Len(pm_log)]

\* What the configuration file says, apart from its formatting.
CfgContent(file) == << file.active, file.prev, file.hist, file.packs >>

\* The from/to pairs of a ledger.
Switches(hist) == [i \in 1..Len(hist) |-> << hist[i].from, hist[i].to >>]

\* Entry i is a successful activate and entry i+1, the newest operation, a
\* successful rollback without --to.
ActivateThenRollback(i) ==
    /\ i + 1 = Len(pm_log)
    /\ pm_log[i].op = "activate" /\ pm_log[i].rc = "ok"
    /\ pm_log[i + 1].op = "rollback" /\ pm_log[i + 1].pack = Null
    /\ pm_log[i + 1].rc = "ok"

\* C3 (as claimed): a successful activate followed immediately by a rollback
\* without target leaves the configuration with the content it had before the
\* activate: same active_pack, previous-pack marker, ledger and packs table.
C3_RollbackRestoresContent ==
    \A i \in 1..(Len(pm_log) - 1) :
        ActivateThenRollback(i) => CfgContent(pm_cfg) = CfgContent(pm_log[i].pre)

\* C3 (amended): the rollback restores the active pack only.  Afterwards
\* active_pack is the pack that was active before the activate ("default"
\* when the key was absent), the previous-pack marker names the activated
\* pack, the ledger ends with the two switches p -> q and q -> p, and every
\* pack registered before is registered as before.
C3_RollbackRestoresActivePack ==
    \A i \in 1..(Len(pm_log) - 1) :
        ActivateThenRollback(i) =>
            LET pre == LoadCfg(pm_log[i].pre)
                q == pm_log[i].pack
                n == Len(pm_cfg.hist)
            IN  /\ pm_cfg.active = pre.active
                /\ pm_cfg.prev = q
                /\ n >= 2 /\ n <= HistCap
                /\ Switches(pm_cfg.hist)[n - 1] = << pre.active, q >>
                /\ Switches(pm_cfg.hist)[n] = << q, pre.active >>
                /\ \A pid \in PackIds :
                      pre.packs[pid] # Null => pm_cfg.packs[pid] = pre.packs[pid]

\* C3 witness: an activate that switched to another pack was rolled back.
C3_Witness ==
    \E i \in 1..(Len(pm_log) - 1) :
        /\ ActivateThenRollback(i)
        /\ pm_log[i].pack # LoadCfg(pm_log[i].pre).active
        /\ CfgContent(pm_cfg) # CfgContent(pm_log[i].pre)

\* The newest operation got as far as its smoke run, and the run failed.
SmokeFailed ==
    /\ pm_log # << >>
    /\ LastOp.smoke = "fail"
    /\ LastOp.rc # "error"

\* C4: when activate or rollback runs the smoke check and it fails, the
\* operation reports failure and kg_config.json is again the file it was
\* before the operation started (pre-activation active_pack, no ledger entry
\* for the failed switch).
C4_SmokeFailureRestores ==
    SmokeFailed => /\ LastOp.rc = "fail"
                   /\ pm_cfg = LastOp.pre

\* C4 witness: a switch to another pack was undone by a failed smoke run.
C4_Witness ==
    /\ SmokeFailed
    /\ LastOp.op = "activate"
    /\ LastOp.pack # LoadCfg(LastOp.pre).active
    /\ pm_bak # LastOp.pre_bak

\* The pack the newest operation was to switch to (Null: a rollback with
\* neither --to nor a previous-pack marker).
TargetOfLastOp ==
    IF LastOp.op = "activate" \/ LastOp.pack # Null THEN LastOp.pack
    ELSE LoadCfg(LastOp.pre).prev

\* The newest operation had a target whose validation did not return 0.
ValidationFailed ==
    /\ pm_log # << >>
    /\ TargetOfLastOp # Null
    /\ CmdValidate(LastOp.pre, pm_fs, TargetOfLastOp) # "ok"

\* C5: when validation of the target pack fails, activate (and rollback)
\* ends with an error and leaves kg_config.json as it was, and writes no
\* backup file.
C5_ValidationFailureChangesNothing ==
    ValidationFailed => /\ LastOp.rc = "error"
                        /\ pm_cfg = LastOp.pre
                        /\ pm_bak = LastOp.pre_bak

\* C5 witness: an activate of a registered pack one of whose files no longer
\* matches its manifest was refused.
C5_Witness ==
    /\ ValidationFailed
    /\ LastOp.op = "activate"
    /\ LoadCfg(LastOp.pre).packs[LastOp.pack] # Null
    /\ pm_fs[LastOp.pack].exists
    /\ LastOp.pack # LoadCfg(LastOp.pre).active

(***************************************************************************)
(* Claim about validate (SpecValidate).                                    *)
(***************************************************************************)

\* The directory the newest operation's pack resolves to.
DirOfLastOp == pm_fs[BaseDirOf(LoadCfg(LastOp.pre), LastOp.pack)]

Validated == pm_log # << >> /\ LastOp.op = "validate"

\* A file the manifest lists is missing or its hash is not the listed one.
ListedFileBad(d) ==
    /\ d.manifest.kind = "json"
    /\ \E i \in 1..Len(d.manifest.files) :
          LET it == d.manifest.files[i]
          IN  /\ it.is_obj /\ it.path # ""
              /\ (d.files[it.path] = 0 \/ d.files[it.path] # it.sha)

\* The manifest is present and cannot be used as one: not JSON, not an
\* object, files[] absent, not a list or empty, or an item that is no object or
\* lacks path or sha256.
ManifestMalformed(d) ==
    \/ d.manifest.kind \in {"invalid", "scalar"}
    \/ /\ d.manifest.kind = "json"
       /\ \/ ~d.manifest.files_is_list
          \/ d.manifest.files = << >>
          \/ \E i \in 1..Len(d.manifest.files) :
                LET it == d.manifest.files[i]
                IN  ~it.is_obj \/ it.path = "" \/ it.sha = 0

C7_ReadersSeeWholeConfig ==
    rw_seen # None => rw_seen[1].len = TextChunks

(***************************************************************************)
(* Claims about /compose and /audit (SpecCompose).                         *)
(***************************************************************************)

\* The request has been answered by the gate or after composing.
Answered == co_pc = "idle" /\ co_resp \in {"blocked", "ok"}

\* C1: the input_sha256 stamped in project_profile.json, region_upgrade.json
\* and kg_context.json by one run over a payload is one and the same value.
C1_SameInputSha256 ==
    Answered =>
        /\ co_build["project_profile"][1].input_sha256
              = co_build["region_upgrade"][1].input_sha256
        /\ co_build["region_upgrade"][1].input_sha256
              = co_build["kg_context"][1].input_sha256

\* The files replay needs according to the configuration a report was
\* computed under: every configured rule and knowledge file, resolved in
\* the pack active at audit time.
ConfiguredFilesExist(at) == \A k \in RuleKinds : PathExists(at.fs, RulePath(at.active, k))

AllArtifactsExist(at) == \A a \in Artifacts : at.build[a] # None

\* C8 (as claimed): replayable is true exactly when every expected artifact
\* and every rule or knowledge file referenced by the last run exists; with
\* no artifact at all it is false and every artifact is listed as missing.
C8_ReplayableIffRunFilesExist ==
    co_audit # None =>
        LET r == co_audit[1]
        IN  /\ r.replayable <=> /\ AllArtifactsExist(r.at)
                                /\ \A p \in RunReferences(r.at.build) : PathExists(r.at.fs, p)
            /\ (\A a \in Artifacts : r.at.build[a] = None)
                   => ~r.replayable /\ r.missing_artifacts = Artifacts

\* C8 (amended): replayable is true exactly when every expected artifact
\* exists and every rule or knowledge file that the configuration read at
\* audit time names exists in the pack active at audit time, whatever paths
\* and hashes the last run stamped; missing lists exactly the absent ones,
\* and with no artifact at all replayable is false and every artifact is
\* listed.
C8_ReplayableIffConfiguredFilesExist ==
    co_audit # None =>
        LET r == co_audit[1]
        IN  /\ r.replayable <=> (AllArtifactsExist(r.at) /\ ConfiguredFilesExist(r.at))
            /\ r.missing_artifacts = {a \in Artifacts : r.at.build[a] = None}
            /\ r.missing_rules = {RulePath(r.at.active, k) :
                                     k \in {k \in RuleKinds :
                                               ~PathExists(r.at.fs, RulePath(r.at.active, k))}}
            /\ (\A a \in Artifacts : r.at.build[a] = None)
                   => ~r.replayable /\ r.missing_artifacts = Artifacts

\* C8 witness: a report that says replayable for a run made under another
\* pack than the one active at audit time, one of whose stamped rule files
\* is gone.
C8_Witness ==
    /\ co_audit # None
    /\ co_audit[1].replayable
    /\ co_audit[1].at.build["precheck_guard"][1].rule_path.pack # co_audit[1].at.active
    /\ \E p \in RunReferences(co_audit[1].at.build) : ~PathExists(co_audit[1].at.fs, p)

\* C9: a request with an empty outline is refused by the gate with reason
\* OUTLINE_EMPTY, compose.json says blocked, and the request has written
\* neither the retrieval trace nor the rendered document.
C9_EmptyOutlineWritesNothingDownstream ==
    (Answered /\ co_req[1].outline = << >>) =>
        /\ ~co_build["precheck_guard"][1].passed
        /\ \E r \in Range(co_build["precheck_guard"][1].reasons) : r.code = "OUTLINE_EMPTY"
        /\ co_build["compose"][1].status = "blocked"
        /\ co_written \cap {"retrieve", Docx} = {}

\* The steps that produce content.
ContentSteps == {"build_sections", "retrieve", "composer", "render"}

\* C10: within a request no content-producing step runs before the gate
\* has given its verdict.
C10_NoContentBeforeGate ==
    \A i \in DOMAIN co_steps :
        co_steps[i] \in ContentSteps => \E j \in 1..(i - 1) : co_steps[j] = "gate"

\* The decision stages in the order the handler runs them.
StageOrder == << "classify", "region", "kg_context", "gate" >>

\* The artifact each decision stage persists.
StageArtifact ==
    [s \in Range(StageOrder) |->
        CASE s = "classify" -> "project_profile"
          [] s = "region" -> "region_upgrade"
          [] s = "kg_context" -> "kg_context"
          [] s = "gate" -> "precheck_guard"]

\* The decision stages among the steps of a request, in the order taken.
DecisionSteps(steps) == SelectSeq(steps, LAMBDA s : s \in Range(StageOrder))

\* What the classifier returned for this request (the handler adds the
\* topic to the object in memory later, and never rewrites the file).
AsClassified(profile) == [profile EXCEPT !.topic = None]

\* The value a finished stage of this request produced.
StageValue(s) ==
    CASE s = "classify" -> Some(AsClassified(co_loc.profile[1]))
      [] s = "region" -> co_loc.upgrade
      [] s = "kg_context" -> co_loc.kg_context
      [] s = "gate" -> co_loc.precheck

\* The artifact of stage s is on disk with what this request computed.
Persisted(s) ==
    /\ StageArtifact[s] \in co_written
    /\ StageValue(s) # None
    /\ co_build[StageArtifact[s]] = StageValue(s)

\* The stage the handler is about to start, as an index into StageOrder
\* (0: none).
AboutToStart ==
    CASE co_pc = "region" -> 2
      [] co_pc = "kg_context" -> 3
      [] co_pc = "gate" -> 4
      [] OTHER -> 0

\* C11: the decision stages run in the order classify, region, KG context,
\* gate; when a stage is about to start or has started (finished or failed),
\* the artifact of every earlier stage of this request is on disk.
C11_StagesInOrderAndPersisted ==
    LET done == DecisionSteps(co_steps)
    IN  /\ Len(done) <= Len(StageOrder)
        /\ \A i \in 1..Len(done) : done[i] = StageOrder[i]
        /\ \A i \in 1..Len(done) : \A j \in 1..(i - 1) : Persisted(StageOrder[j])
        /\ \A j \in 1..(AboutToStart - 1) : Persisted(StageOrder[j])

\* C11 witness: the gate raised, and the three artifacts of the earlier
\* stages of this request are on disk.
C11_Witness ==
    /\ co_resp = "error"
    /\ DecisionSteps(co_steps) = StageOrder
    /\ co_loc.precheck = None
    /\ \A j \in 1..3 : Persisted(StageOrder[j])

\* The handler has left the gate stage of this request (with or without an
\* evaluation) and the request is over.
ReachedGate == co_pc = "idle" /\ "gate" \in Range(co_steps)

\* run_precheck_guard returned and its evaluation was written for this
\* request, and the request is over.
GateReturned == co_pc = "idle" /\ "precheck_guard" \in co_written

\* The two outcomes after the gate: compose.json of this request says
\* blocked exactly when the persisted evaluation did not pass, else ok; the
\* blocked one carries the gate's text and was made without Composer.compose
\* and without rendering.
GateOutcome ==
    /\ co_resp \in {"blocked", "ok"}
    /\ {"precheck_guard", "compose"} \subseteq co_written
    /\ LET saved == co_build["compose"][1]
           evaluation == co_build["precheck_guard"][1]
       IN  /\ saved.status \in {"blocked", "ok"}
           /\ saved.status = "blocked" <=> ~evaluation.passed
           /\ co_resp = saved.status
           /\ saved.status = "blocked" =>
                 /\ saved.sections.content = Some(evaluation.human_readable)
                 /\ {"composer", "render"} \cap Range(co_steps) = {}
                 /\ Docx \notin co_written

EnrichmentFailedAfterGate ==
    \E i, j \in 1..Len(co_steps) :
        i < j /\ co_steps[i] = "gate" /\ co_steps[j] = "enrichment_failed"

\* The only sections that say that the compose engine failed are the
\* fallback ones ('compose_engine_service failed: ...').
HasFailureNote(sections) == sections.origin = "fallback"

\* C14: when the enrichment raises in a request whose gate passed, the
\* request still ends with status ok, and the result persisted and returned
\* carries a note of the enrichment failure.
C14_EnrichmentFailureNoted ==
    (co_pc = "idle" /\ EnrichmentFailedAfterGate) =>
        /\ co_resp = "ok"
        /\ co_build["compose"][1].status = "ok"
        /\ co_loc.result # None
        /\ co_build["compose"][1].sections = co_loc.result[1]
        /\ HasFailureNote(co_build["compose"][1].sections)

\* The hash of its governing rule file that a decision artifact carries
\* (null: << >>).
GoverningRuleHash(a, artifact) ==
    IF a = "kg_context" THEN artifact.domain_map.sha256 ELSE artifact.rule_sha256

\* The rule file an artifact names as the one that governed its stage.
GoverningRulePath(a, artifact) ==
    CASE a = "kg_context" -> Some(artifact.domain_map.path)
      [] a = "region_upgrade" -> artifact.rule_path
      [] OTHER -> Some(artifact.rule_path)

\* C17: every artifact a decision stage of this request has persisted
\* carries a hash of its governing rule file that is not null and is the
\* hash of the file the stage read.
C17_ArtifactsCarryRuleHash ==
    \A s \in Range(StageOrder) :
        StageArtifact[s] \in co_written =>
            LET artifact == co_build[StageArtifact[s]][1]
            IN  /\ GoverningRuleHash(StageArtifact[s], artifact) # None
                /\ GoverningRuleHash(StageArtifact[s], artifact)
                      = GoverningRulePath(StageArtifact[s], artifact)

(***************************************************************************)
(* Claims about run_precheck_guard (SpecGuard).                            *)
(***************************************************************************)

\* run_precheck_guard has returned an evaluation.
GuardReturned == fn_out # None /\ ~fn_out[1].raised

\* C13: whenever the profile's decision is block_and_review, the evaluation
\* run_precheck_guard returns has passed = false, whatever the payload and
\* the guard rule file.
C13_BlockAndReviewNeverPasses ==
    (GuardReturned /\ fn_in.profile.decision = "block_and_review") =>
        ~fn_out[1].passed

\* C13 witness: block_and_review with topic, outline and the rule's required
\* field all given, and the evaluation does not pass.
C13_Witness ==
    /\ GuardReturned
    /\ fn_in.profile.decision = "block_and_review"
    /\ fn_in.active = "p1" /\ fn_in.state = "file"
    /\ MissingRequiredFields(fn_in.req, GuardRequiredFields("p1")) = {}
    /\ ~IsBlankText(fn_in.req.topic) /\ fn_in.req.outline # << >>
    /\ ~fn_out[1].passed

\* C15: two evaluations with equal reasons and equal suggested_actions have
\* equal human_readable text.
C15_TextFromReasonsAndActionsOnly ==
    GuardReturned =>
        \A other \in GdInputs :
            LET e == CallGuard(other)
            IN  (/\ ~e.raised
                 /\ e.reasons = fn_out[1].reasons
                 /\ e.suggested_actions = fn_out[1].suggested_actions)
                => e.human_readable = fn_out[1].human_readable

\* The checks of an evaluation that failed, in order.
FailedChecks(details) == SelectSeq(details, LAMBDA d : ~d.passed)

\* The reason code of a check.
ReasonCodeOf(check_id) ==
    CASE check_id = "TOPIC_REQUIRED" -> "TOPIC_EMPTY"
      [] check_id = "OUTLINE_REQUIRED" -> "OUTLINE_EMPTY"
      [] check_id = "PROJECT_PROFILE_DECISION" -> "LOW_CONFIDENCE_PROFILE"
      [] check_id = "REQUIRED_FIELDS_FROM_RULE" -> "MISSING_REQUIRED_FIELDS"

\* C16: passed is the conjunction of the passed flags of details; the
\* reasons are one per failing check, in order and with that check's code;
\* there is at least one suggested action per failing check; passed holds
\* exactly when reasons is empty.
C16_PassedIsConjunctionOfDetails ==
    GuardReturned =>
        LET e == fn_out[1]
            failed == FailedChecks(e.details)
        IN  /\ e.passed <=> \A i \in DOMAIN e.details : e.details[i].passed
            /\ Len(e.reasons) = Len(failed)
            /\ \A i \in DOMAIN failed : e.reasons[i].code = ReasonCodeOf(failed[i].check_id)
            /\ Len(e.suggested_actions) >= Len(failed)
            /\ failed # << >> => e.suggested_actions # << >>
            /\ e.passed <=> e.reasons = << >>

\* C16 witness: an evaluation in which the first check passes and two later
\* checks fail.
C16_Witness ==
    /\ GuardReturned
    /\ fn_out[1].details[1].passed
    /\ Len(FailedChecks(fn_out[1].details)) = 2
    /\ Len(fn_out[1].reasons) = 2
    /\ ~fn_out[1].passed

(***************************************************************************)
(* Claim about _select_base_packs (SpecSelect).                            *)
(***************************************************************************)

\* C18: for every domain key and every configured list, the selection is
\* the universal pack, the risk pack and the one domain-tier pack of the
\* key (the generic civil pack for an unrecognized key), in that order,
\* without duplicates, and each of them a configured path.
C18_UniversalRiskAndOneTierPack ==
    fn_out # None =>
        LET selected == fn_out[1]
        IN  /\ Len(selected) = 3
            /\ PackFileName(selected[1]) = "Universal_Base_Pack.json"
            /\ PackFileName(selected[2]) = "Risk_Specialist_Pack.json"
            /\ PackFileName(selected[3]) = DomainTierPack(NormalizeDomainKey(fn_in.domain_key))
            /\ \A i, j \in DOMAIN selected : selected[i] = selected[j] => i = j
            /\ Range(selected) \subseteq Range(fn_in.base_pack_paths)

(***************************************************************************)
(* Claim about _resolve_domain (SpecDomain).                               *)
(***************************************************************************)

\* The orders a catalogue can be given in.
Reorderings(catalogue) ==
    { [i \in DOMAIN catalogue |-> catalogue[f[i]]] : f \in Permutations(DOMAIN catalogue) }

\* One entry of the catalogue scores more than zero and more than every
\* other entry.
SingleTopEntry(catalogue, query) ==
    \E i \in DOMAIN catalogue :
        /\ ScoreMapEntry(catalogue[i], query) > 0
        /\ \A j \in DOMAIN catalogue :
              j # i => ScoreMapEntry(catalogue[j], query) < ScoreMapEntry(catalogue[i], query)

\* C19: when a single entry of the catalogue attains the top positive
\* score for the query, every order of the catalogue's entries resolves to
\* the same domain_key.
C19_OrderIrrelevantWithSingleTop ==
    (/\ fn_out # None
     /\ SingleTopEntry(fn_in.domain_map,
                       DomainQuery(fn_in.project_type_cn, fn_in.topic)))
    => \A c \in Reorderings(fn_in.domain_map) :
           ResolveDomain(Some(c), fn_in.project_type_cn, fn_in.topic).domain_key
               = fn_out[1].domain_key

(***************************************************************************)
(* Claim about resolve_region_upgrade (SpecRegion).                        *)
(***************************************************************************)

\* The region key of the call's input: payload, then profile, then default.
RgKey == ExtractRegionKey(fn_in.payload, fn_in.profile, RgConfig(fn_in))

\* The file name configured for the key of the call's input (Null: none).
RgFileName ==
    IF RgKey # Null /\ fn_in.rules.kind = "map" THEN fn_in.rules.map[RgKey] ELSE Null

\* The state of the configured rule file.
RgFileState == FileState(fn_in.fs, RulePath("default", RgFileName))

\* The cases in which a result with applied = false and an error is due.
RgFailureCase ==
    \/ RgKey = Null
    \/ RgFileName = Null
    \/ RgFileName \in RgFiles /\ RgFileState \in {"missing", "garbled"}

\* What every returned result satisfies according to the claim.
RgResultAsClaimed(r) ==
    /\ RgFailureCase => ~r.applied /\ r.errors # << >>
    /\ (RgFileName \in RgFiles /\ RgFileState = "missing") =>
          \E i \in DOMAIN r.errors :
              r.errors[i].path = Some(RulePath("default", RgFileName))
    /\ r.applied => /\ r.errors = << >>
                    /\ r.rule_path # None
                    /\ r.rule_sha256 # None

\* C20: for every payload, profile and region-rule configuration,
\* resolve_region_upgrade returns and does not raise; the result has
\* applied = false and an error when no key is resolvable, no rule is
\* configured for the key, the file is missing (the error names the path)
\* or does not parse; applied = true comes only with no error and with
\* rule_path and rule_sha256 stamped.
C20_RegionNeverRaises ==
    fn_out # None => ~fn_out[1].raised /\ RgResultAsClaimed(fn_out[1])

(***************************************************************************)
(* Claims about the pack store (SpecStore).                                *)
(***************************************************************************)

\* C21: no command of the pack manager changes, replaces or deletes a file
\* or the manifest of a pack directory that exists; a step changes the
\* configuration at most.
C21_PacksAreImmutable ==
    [][\A pid \in PackIds : pm_fs[pid].exists => pm_fs'[pid] = pm_fs[pid]]_vars

(***************************************************************************)
(* Claims about the pack identity of a run (SpecCompose).                  *)
(***************************************************************************)

\* The pack whose files the KG context stage of the stored run read.
PackOfRun(kg_context) == kg_context.domain_map.path.pack

\* C22: after a run made while pack A was active, /debug/kg_pack reports
\* stale = true when the configuration now names a pack with another id or
\* manifest hash, and stale = false when the pack identity of the last run
\* and the configuration agree.
C22_StaleIffPackDiverged ==
    (fn_out # None /\ fn_in[1].kg_context # None) =>
        (fn_out[1].stale
           <=> PackIdentity(PackOfRun(fn_in[1].kg_context[1])) # PackIdentity(fn_in[1].active))

\* The kg_pack record of an artifact (<< >>: none, or null).
StampOf(artifact) == IF "kg_pack" \in DOMAIN artifact THEN artifact.kg_pack ELSE None

\* C23: after a request answered with status ok, kg_context.json,
\* retrieve.json and compose.json each hold a kg_pack record with an
\* active_pack, manifest_exists = true and a manifest_sha256.
C23_ArtifactsCarryPackStamp ==
    (co_pc = "idle" /\ co_resp = "ok") =>
        \A a \in {"kg_context", "retrieve", "compose"} :
            /\ co_build[a] # None
            /\ StampOf(co_build[a][1]) # None
            /\ StampOf(co_build[a][1])[1].active_pack # Null
            /\ StampOf(co_build[a][1])[1].manifest_exists
            /\ StampOf(co_build[a][1])[1].manifest_sha256 # None

\* The last request stored in build/compose.json was answered with status ok.
LastRunOk(build) == build["compose"] # None /\ build["compose"][1].status = "ok"

\* C24: when the last request was answered with status ok and every rule and
\* pack file the configuration names is in place, the audit that follows
\* reports replay.replayable = true: the run has written every artifact the
\* audit expects.
C24_OkRunIsReplayable ==
    co_audit # None =>
        LET r == co_audit[1]
        IN  (LastRunOk(r.at.build) /\ ConfiguredFilesExist(r.at))
                => r.replayable /\ r.missing_artifacts = {} /\ r.missing_rules = {}

(***************************************************************************)
(* Claims about rollback and the switch ledger (SpecPack).                 *)
(***************************************************************************)

\* Entry i is a successful activate and entry i+1, the newest operation, a
\* rollback without --to whose smoke run, if any, passed.
ActivateThenRollbackAttempt(i) ==
    /\ i + 1 = Len(pm_log)
    /\ pm_log[i].op = "activate" /\ pm_log[i].rc = "ok"
    /\ pm_log[i + 1].op = "rollback" /\ pm_log[i + 1].pack = Null
    /\ pm_log[i + 1].smoke # "fail"

\* C25: after a successful activation, from whatever configuration it
\* started (the unregistered root-layout pack default included), a rollback
\* without target succeeds and makes active the pack that was active just
\* before that activation.
C25_RollbackReturnsToPreviousPack ==
    \A i \in 1..(Len(pm_log) - 1) :
        ActivateThenRollbackAttempt(i) =>
            /\ pm_log[i + 1].rc = "ok"
            /\ pm_cfg.active = LoadCfg(pm_log[i].pre).active

\* The newest operation is an activate or a rollback that succeeded.
SwitchSucceeded ==
    /\ pm_log # << >>
    /\ LastOp.op \in {"activate", "rollback"}
    /\ LastOp.rc = "ok"

\* C26: after every successful activate or rollback that switches from pack
\* p to pack q, active_pack is q, the previous-pack marker is p, the ledger
\* is the old ledger with the one entry {from p, to q} appended and the
\* oldest entries dropped beyond 20.
C26_SwitchRecordsMarkerAndLedger ==
    SwitchSucceeded =>
        LET pre == LoadCfg(LastOp.pre)
            p == pre.active
            q == TargetOfLastOp
            old == pre.hist
            hist == pm_cfg.hist
            n == Len(hist)
        IN  /\ pm_cfg.active = q
            /\ pm_cfg.prev = p
            /\ n >= 1 /\ n <= HistCap
            /\ hist[n].from = p /\ hist[n].to = q
            /\ IF Len(old) < HistCap
               THEN n = Len(old) + 1 /\ SubSeq(hist, 1, n - 1) = old
               ELSE n = HistCap /\ SubSeq(hist, 1, n - 1) = SubSeq(old, 2, HistCap)

\* C26 witness: a successful switch to another pack on a ledger that was
\* already full.
C26_Witness ==
    /\ SwitchSucceeded
    /\ Len(LastOp.pre.hist) = HistCap
    /\ TargetOfLastOp # LoadCfg(LastOp.pre).active
    /\ Len(pm_cfg.hist) = HistCap

(***************************************************************************)
(* Claims about the rule-file checks of the audit (SpecCompose).           *)
(***************************************************************************)

RuleChecks == {"project_profile_rule_file", "precheck_guard_rule_file",
               "region_upgrade_rule_file", "domain_map_rule_file"}

\* The artifact a rule-file check compares with, and the configuration key
\* of its rule file.
ArtifactOfCheck(c) ==
    IF c = "project_profile_rule_file" THEN "project_profile"
    ELSE IF c = "precheck_guard_rule_file" THEN "precheck_guard"
    ELSE IF c = "region_upgrade_rule_file" THEN "region_upgrade"
    ELSE "kg_context"

KindOfCheck(c) ==
    IF c = "project_profile_rule_file" THEN "project_profile_rules"
    ELSE IF c = "precheck_guard_rule_file" THEN "precheck_guard_rules"
    ELSE IF c = "region_upgrade_rule_file" THEN "region_upgrade_rules"
    ELSE "domain_map"

\* The hash stamped in the stored artifact of a check (<< >>: none).
StampedHash(build, c) ==
    IF build[ArtifactOfCheck(c)] = None THEN None
    ELSE GoverningRuleHash(ArtifactOfCheck(c), build[ArtifactOfCheck(c)][1])

\* The report was computed right after a finished run: all four decision
\* artifacts are there and the active pack has not been switched.
AuditedRightAfterRun(r) ==
    /\ \A c \in RuleChecks : r.at.build[ArtifactOfCheck(c)] # None
    /\ r.at.build["compose"] # None
    /\ co_switches = 0

\* Every rule and knowledge file the configuration names is a regular file in
\* the pack active at audit time.
ConfiguredFilesAreFiles(at) ==
    \A k \in RuleKinds : FileState(at.fs, RulePath(at.active, k)) = "file"

\* C27: sha256_match of a rule-file check is true exactly when the hash of
\* the rule file resolved from the active configuration equals the hash
\* stamped in the stored artifact; right after a run it is true for all four
\* checks; after a switch to a pack with other content it is false, while
\* replayable stays true as long as all files exist.
C27_MatchIffHashesEqual ==
    co_audit # None =>
        LET r == co_audit[1]
        IN  /\ \A c \in RuleChecks :
                  (r.checks[c] = Some(TRUE))
                      <=> /\ StampedHash(r.at.build, c) # None
                          /\ StampedHash(r.at.build, c)
                                = AuditSha256File(r.at.fs, RulePath(r.at.active, KindOfCheck(c)))
            /\ AuditedRightAfterRun(r) => \A c \in RuleChecks : r.checks[c] = Some(TRUE)
            /\ \A c \in RuleChecks :
                  (/\ StampedHash(r.at.build, c) # None
                   /\ StampedHash(r.at.build, c)[1].pack # r.at.active
                   /\ ConfiguredFilesAreFiles(r.at))
                      => /\ r.checks[c] = Some(FALSE)
                         /\ (AllArtifactsExist(r.at) => r.replayable)

(***************************************************************************)
(* Claims about the profile and the pack of one request (SpecCompose).     *)
(***************************************************************************)

\* C28: once the classifier has returned, the profile of the request is
\* fixed: the profile that the region stage, the KG context stage and the
\* gate have consumed has the fields and values of the profile persisted in
\* build/project_profile.json.
C28_ProfileFixedAfterClassifier ==
    \A s \in {"region", "kg_context", "gate"} :
        s \in Range(co_steps) =>
            /\ co_loc.profile # None
            /\ co_build["project_profile"] # None
            /\ co_loc.profile[1] = co_build["project_profile"][1]

\* The packs that the rule paths stamped by the stages of the request in
\* flight belong to.
StampedPacks ==
    (IF co_loc.profile # None THEN {co_loc.profile[1].rule_path.pack} ELSE {})
    \cup (IF co_loc.upgrade # None
          THEN {p.pack : p \in Range(co_loc.upgrade[1].rule_path)} ELSE {})
    \cup (IF co_loc.kg_context # None
          THEN {co_loc.kg_context[1].domain_map.path.pack}
                   \cup {p.path.pack : p \in co_loc.kg_context[1].selected_packs}
          ELSE {})
    \cup (IF co_loc.precheck # None /\ ~co_loc.precheck[1].raised
          THEN {co_loc.precheck[1].rule_path.pack} ELSE {})

\* C29: all stages of one request resolve their rule files against the same
\* active pack, also when an activate or rollback completes between two
\* stages: the rule paths stamped by the request belong to one pack.
C29_OneRequestOnePack == Cardinality(StampedPacks) <= 1

(***************************************************************************)
(* Claims about validation and the files of the active pack (SpecStore).   *)
(***************************************************************************)

\* The directory lacks a file that kg_config.json names.
LacksConfiguredFile(d) == \E rel \in CfgPaths : d.files[rel] = 0

\* C30: validate fails for every pack whose directory lacks a file that the
\* configuration names; so after a successful activate or rollback the
\* directory of the active pack holds every such file.
C30_ActivePackHasConfiguredFiles ==
    /\ (pm_log # << >> /\ LastOp.op = "validate"
          /\ pm_fs[BaseDirOf(LoadCfg(pm_cfg), LastOp.pack)].exists
          /\ LacksConfiguredFile(pm_fs[BaseDirOf(LoadCfg(pm_cfg), LastOp.pack)]))
         => LastOp.rc # "ok"
    /\ SwitchSucceeded
         => ~LacksConfiguredFile(pm_fs[BaseDirOf(pm_cfg, pm_cfg.active)])

====
